---------------------------- MODULE Spec2Model ----------------------------
(* ModelicaIO.c: reading a table from an ASCII text file (readTxtTable,    *)
(* readLine, IsNumber), the MAT-file path (readMatTable, readMatIO), the   *)
(* public entry ModelicaIO_readRealTable and the in-place transpose.       *)
(*                                                                         *)
(* Bytes are one-character strings; NUL and LF are the string terminator   *)
(* and the newline.  A C buffer is a sequence whose element c+1 is the     *)
(* byte at C index c; bytes past the end of the sequence were never        *)
(* written.  The build modelled is the glibc one (_POSIX_, locale_t).      *)
EXTENDS Integers, Sequences, FiniteSets, TLC

VARIABLES
    pc,             \* position of the call
    fileName,       \* ModelicaIO_readRealTable: argument fileName
    tableName,      \* ModelicaIO_readRealTable: argument tableName
    verbose,        \* ModelicaIO_readRealTable: argument verbose
    disk,           \* the one file of the file system: [name, kind]
    callee,         \* parameters of the static reader that was called
    fp,             \* FILE* / mat_t*: NoName (NULL) or the name that was opened
    searched,       \* names compared with / looked up for the table
    file,           \* the physical lines read from the stream so far
    atEnd,          \* the stream is exhausted (last line had no terminator)
    buf,            \* line buffer (bytes, stale ones included)
    bufLen,         \* capacity of the line buffer
    foundTable, tableReadError, nRow, nCol, lineNo,
    i, j, k, lineNoPartial,
    table,          \* NULL or the cells of the table
    m, n,           \* the caller's *m and *n
    ret,            \* value returned by the call
    msgs,           \* messages and errors reported, in order
    rsrc,           \* releases: fclose(fp), free(buf), freelocale(loc), ...
    tt, tR, tC, ti, tphase,  \* transpose under test: buffer, shape, loop index
    rlStream,       \* readLine under test: the bytes of the stream not yet read
    rlBuf, rlBufLen,   \* *buf and *bufLen
    rlStatus,       \* what the last call of readLine returned
    rlBefore,       \* stream and capacity as the last call found them
    numToken,       \* IsNumber under test: its argument
    isNumber,       \* and what it returned
    entry,          \* MAT-file interface: the function that was called
    mtName,         \* its argument matrixName
    shape,          \* its arguments m and n
    matrix,         \* the cells of the caller's matrix
    version, append,   \* ModelicaIO_writeRealMatrix: arguments
    lib,            \* what the MAT-file library answered
    matio,          \* the MatIO structure as readMatIO left it
    dim,            \* ModelicaIO_readMatrixSizes: dim[0], dim[1]
    status,         \* ModelicaIO_writeRealMatrix: value returned
    fsOps           \* calls of the library that create, open or write files

vars == <<pc, fileName, tableName, verbose, disk, callee, fp, searched, file,
          atEnd, buf, bufLen, foundTable, tableReadError, nRow, nCol, lineNo,
          i, j, k, lineNoPartial, table, m, n, ret, msgs, rsrc, tt, tR, tC, ti, tphase,
          rlStream, rlBuf, rlBufLen, rlStatus, rlBefore, numToken, isNumber,
          entry, mtName, shape, matrix, version, append, lib, matio, dim,
          status, fsOps>>

rdVars == <<pc, fileName, tableName, verbose, disk, callee, fp, searched, file,
            atEnd, buf, bufLen, foundTable, tableReadError, nRow, nCol, lineNo,
            i, j, k, lineNoPartial, table, m, n, ret, msgs, rsrc>>

trVars == <<tt, tR, tC, ti, tphase>>

rlVars == <<rlStream, rlBuf, rlBufLen, rlStatus, rlBefore>>

nbVars == <<numToken, isNumber>>

mtVars == <<entry, mtName, shape, matrix, version, append, lib, matio, dim,
            status, fsOps>>

---------------------------------------------------------------------------
(* Bounds of the model *)

\* longest file (in physical lines) the stream delivers
MaxLines == 4
\* longest file of EdgePool lines the stream delivers
MaxEdgeLines == 5
\* most lines the stream delivers to the loop that looks for the table header
MaxScan == 2
\* largest row and column count of a buffer handed to transpose
MaxDim == 4
\* largest capacity of the line buffer handed to readLine on its own
MaxCap == 4
\* longest stream (in bytes) readLine is run on on its own
MaxStream == 5
\* longest token (in bytes) IsNumber is run on on its own
MaxTok == 5
\* most segments of a dotted variable name looked up in a MAT-file
MaxDepth == 3
\* width in bits of size_t, long and unsigned long (64 in the build)
WordBits == 8

---------------------------------------------------------------------------
(* Bytes and C strings *)

NUL == "NUL"
LF == "LF"
UNINIT == "??"
\* a pointer to no block, and a block of cells
\* (stray: the indices behind the block at which a store was made)
NULL == [alloc |-> FALSE, cells |-> <<>>, stray |-> {}]
Block(cells) == [alloc |-> TRUE, cells |-> cells, stray |-> {}]
\* a cell no value was stored in (strtod yields normal forms only)
UninitCell == [mant |-> 0, exp |-> 1]
\* *m, *n: not written by the call (the caller's value), or the value written
UNSET == <<>>
Val(v) == <<v>>
\* the call has not returned, or returned table t
NoRet == [done |-> FALSE, table |-> NULL]
Ret(t) == [done |-> TRUE, table |-> t]
NoName == <<>>
EOF == -1
LINE_BUFFER_LENGTH == 64

Digits == {"0", "1", "2", "3", "4", "5", "6", "7", "8", "9"}

DigitVal(c) ==
    CASE c = "0" -> 0 [] c = "1" -> 1 [] c = "2" -> 2 [] c = "3" -> 3
      [] c = "4" -> 4 [] c = "5" -> 5 [] c = "6" -> 6 [] c = "7" -> 7
      [] c = "8" -> 8 [] c = "9" -> 9

SetMin(S) == CHOOSE x \in S : \A y \in S : x <= y
SetMax(S) == CHOOSE x \in S : \A y \in S : x >= y

\* buf[c]
At(b, c) == IF c >= 0 /\ c < Len(b) THEN b[c + 1] ELSE UNINIT

\* buf[c] = v (the buffer grows over bytes never written before)
Put(b, c, v) ==
    [x \in 1..(IF c + 1 > Len(b) THEN c + 1 ELSE Len(b)) |->
        IF x = c + 1 THEN v ELSE IF x <= Len(b) THEN b[x] ELSE UNINIT]

\* index of the first byte at or after s that is in set S; -1 if none is written
Find(b, s, S) ==
    LET hits == {c \in s..(Len(b) - 1) : b[c + 1] \in S}
    IN  IF hits = {} THEN -1 ELSE SetMin(hits)

\* index of the first byte at or after s that is not in set S
FindNot(b, s, S) ==
    LET hits == {c \in s..(Len(b) - 1) : b[c + 1] \notin S}
    IN  IF hits = {} THEN Len(b) ELSE SetMin(hits)

\* the C string that starts at index s
CStr(b, s) ==
    LET e == Find(b, s, {NUL})
    IN  IF e < 0 THEN SubSeq(b, s + 1, Len(b)) \o <<UNINIT>>
        ELSE SubSeq(b, s + 1, e)

\* strlen(&buf[s])
Strlen(b, s) == Len(CStr(b, s))


\* the bytes s stored at buf[off], buf[off+1], ...
WriteAt(b, off, s) ==
    [x \in 1..(IF off + Len(s) > Len(b) THEN off + Len(s) ELSE Len(b)) |->
        IF x > off /\ x <= off + Len(s) THEN s[x - off]
        ELSE IF x <= Len(b) THEN b[x] ELSE UNINIT]

---------------------------------------------------------------------------
(* C library: fgets, strtok_r, strtol, strtod, strncmp *)

\* fgets(&buf[off], size, fp) on a stream whose remaining bytes are rest:
\* at most size-1 bytes, up to and including the first newline, then a NUL;
\* NULL (ok = FALSE, buffer untouched) when no byte is left.
Fgets(b, off, size, rest) ==
    IF rest = <<>> \/ size < 2 THEN [ok |-> FALSE, buf |-> b, rest |-> rest]
    ELSE LET lfs == {p \in 1..Len(rest) : rest[p] = LF}
             lim == IF size - 1 < Len(rest) THEN size - 1 ELSE Len(rest)
             cnt == IF lfs # {} /\ SetMin(lfs) <= lim THEN SetMin(lfs) ELSE lim
         IN  [ok |-> TRUE,
              buf |-> WriteAt(b, off, SubSeq(rest, 1, cnt) \o <<NUL>>),
              rest |-> SubSeq(rest, cnt + 1, Len(rest))]

\* strtok_r(&buf[p], delims, &nextToken) and strtok_r(NULL, ...) with
\* nextToken = p: tok is the index of the token (-1: NULL), the delimiter
\* that ends the token is overwritten by NUL.
Strtok(b, p, delims) ==
    LET s == FindNot(b, p, delims)
    IN  IF At(b, s) = NUL \/ s >= Len(b)
        THEN [tok |-> -1, buf |-> b, next |-> s]
        ELSE LET e == Find(b, s, delims \cup {NUL})
             IN  IF e < 0 THEN [tok |-> s, buf |-> b, next |-> Len(b)]
                 ELSE IF At(b, e) = NUL THEN [tok |-> s, buf |-> b, next |-> e]
                 ELSE [tok |-> s, buf |-> Put(b, e, NUL), next |-> e + 1]

\* number of leading digits of s from position p (1-based)
DigitRun(s, p) ==
    LET stops == {q \in p..Len(s) : s[q] \notin Digits}
    IN  (IF stops = {} THEN Len(s) + 1 ELSE SetMin(stops)) - p

\* value of the digit string s[p..q]
RECURSIVE DecVal(_, _, _)
DecVal(s, p, q) ==
    IF q < p THEN 0 ELSE 10 * DecVal(s, p, q - 1) + DigitVal(s[q])

\* strtol(token, &endptr, 10): val, and full = (*endptr == 0)
Strtol(tok) ==
    LET sg == IF Len(tok) > 0 /\ tok[1] \in {"-", "+"} THEN 1 ELSE 0
        nd == DigitRun(tok, sg + 1)
        v  == DecVal(tok, sg + 1, sg + nd)
    IN  IF nd = 0 THEN [val |-> 0, full |-> (Len(tok) = 0)]
        ELSE [val |-> IF sg = 1 /\ tok[1] = "-" THEN 0 - v ELSE v,
              full |-> (sg + nd = Len(tok))]

\* a decimal value mant * 10^exp in normal form (no trailing zero in mant)
RECURSIVE Norm(_, _)
Norm(mant, ex) ==
    IF mant = 0 THEN [mant |-> 0, exp |-> 0]
    ELSE IF mant % 10 = 0 THEN Norm(mant \div 10, ex + 1)
    ELSE [mant |-> mant, exp |-> ex]

\* strtod(token, &endptr) in the "C" locale, decimal forms:
\* [sign] digits [. digits] [(e|E) [sign] digits]; val is the value of the
\* longest prefix of that form (0 if none), full = (*endptr == 0)
Strtod(tok) ==
    LET sg  == IF Len(tok) > 0 /\ tok[1] \in {"-", "+"} THEN 1 ELSE 0
        n1  == DigitRun(tok, sg + 1)
        dot == sg + n1 + 1 <= Len(tok) /\ tok[sg + n1 + 1] = "."
        n2  == IF dot THEN DigitRun(tok, sg + n1 + 2) ELSE 0
        me  == sg + n1 + (IF dot THEN 1 + n2 ELSE 0)   \* end of the mantissa
        hasE == me + 1 <= Len(tok) /\ tok[me + 1] \in {"e", "E"}
        es  == IF hasE /\ me + 2 <= Len(tok) /\ tok[me + 2] \in {"-", "+"}
               THEN 1 ELSE 0
        n3  == IF hasE THEN DigitRun(tok, me + 2 + es) ELSE 0
        used == IF n3 > 0 THEN me + 1 + es + n3 ELSE me
        mant == DecVal(tok, sg + 1, sg + n1) * (10 ^ n2)
                  + (IF dot THEN DecVal(tok, sg + n1 + 2, sg + n1 + 1 + n2) ELSE 0)
        ev  == IF n3 > 0 THEN DecVal(tok, me + 2 + es, me + 1 + es + n3) ELSE 0
        ex  == (IF es = 1 /\ tok[me + 2] = "-" THEN 0 - ev ELSE ev) - n2
        neg == sg = 1 /\ tok[1] = "-"
    IN  IF n1 + n2 = 0 THEN [val |-> Norm(0, 0), full |-> (Len(tok) = 0)]
        ELSE [val |-> Norm(IF neg THEN 0 - mant ELSE mant, ex),
              full |-> (used = Len(tok))]

\* (unsigned long)v and (size_t)v
ULong(v) == v % (2 ^ WordBits)

\* strncmp(s, t, cnt) == 0
StrnEq(s, t, cnt) ==
    LET a == SubSeq(s, 1, IF Len(s) < cnt THEN Len(s) ELSE cnt)
        c == SubSeq(t, 1, IF Len(t) < cnt THEN Len(t) ELSE cnt)
    IN  a = c

---------------------------------------------------------------------------
(* IsNumber and readLine *)

RECURSIVE IsNumberFrom(_, _, _, _, _)
IsNumberFrom(token, kk, foundDec, foundExponent, foundExponentSign) ==
    IF kk > Len(token) THEN 1
    ELSE IF token[kk] \in Digits
        THEN IsNumberFrom(token, kk + 1, foundDec, foundExponent, foundExponentSign)
    ELSE IF token[kk] = "." /\ foundDec = 0 /\ foundExponent = 0
                /\ foundExponentSign = 0
        THEN IsNumberFrom(token, kk + 1, 1, foundExponent, foundExponentSign)
    ELSE IF token[kk] \in {"e", "E"} /\ foundExponent = 0
        THEN IsNumberFrom(token, kk + 1, foundDec, 1, foundExponentSign)
    ELSE IF token[kk] \in {"-", "+"} /\ foundExponent = 1 /\ foundExponentSign = 0
        THEN IsNumberFrom(token, kk + 1, foundDec, foundExponent, 1)
    ELSE 0

\* IsNumber(token); token is the C string, kk counts from 1
IsNumber(token) ==
    IsNumberFrom(token,
                 IF Len(token) > 0 /\ token[1] \in {"-", "+"} THEN 2 ELSE 1,
                 0, 0, 0)

\* the read that resumes one byte further, behind the NUL of the last read
GrowReadBehindNul(b, len, rest) == Fgets(b, len, len + 1, rest)

\* lines 959-961: offset = &buf[oldBufLen - 1]; fgets(offset, oldBufLen + 1, fp)
GrowRead(b, len, rest) == Fgets(b, len - 1, len + 1, rest)

\* the do-while loop of readLine; allocs is the number of realloc calls
\* that still succeed
RECURSIVE ReadLineLoop(_, _, _, _)
ReadLineLoop(b, len, rest, allocs) ==
    LET p == Find(b, 0, {LF, NUL})
    IN  IF At(b, p) = LF
        THEN [status |-> 0, buf |-> Put(b, p, NUL), bufLen |-> len,
              rest |-> rest, released |-> FALSE]
        ELSE IF allocs = 0
        THEN [status |-> 1, buf |-> b, bufLen |-> 2 * len,
              rest |-> rest, released |-> TRUE]
        ELSE LET f == GrowRead(b, len, rest)
             IN  IF f.ok THEN ReadLineLoop(f.buf, 2 * len, f.rest, allocs - 1)
                 ELSE [status |-> 0, buf |-> b, bufLen |-> 2 * len,
                       rest |-> rest, released |-> FALSE]

\* readLine that takes a last line without terminator for the end of file
ReadLineEofAtLastLine(b, len, rest, allocs) ==
    LET f == Fgets(b, 0, len, rest)
    IN  IF ~f.ok \/ (f.rest = <<>> /\ rest[Len(rest)] # LF)
        THEN [status |-> EOF, buf |-> f.buf, bufLen |-> len, rest |-> f.rest,
              released |-> FALSE]
        ELSE ReadLineLoop(f.buf, len, f.rest, allocs)

\* readLine(&buf, &bufLen, fp) on a stream whose remaining bytes are rest
ReadLine(b, len, rest, allocs) ==
    LET f == Fgets(b, 0, len, rest)
    IN  IF ~f.ok
        THEN [status |-> EOF, buf |-> b, bufLen |-> len, rest |-> rest,
              released |-> FALSE]
        ELSE ReadLineLoop(f.buf, len, f.rest, allocs)

---------------------------------------------------------------------------
(* Names, files and lines the environment supplies *)

TAB == "TAB"
CR == "CR"
DELIM_TABLE_HEADER == {" ", TAB, "(", ",", ")", CR}
DELIM_TABLE_NUMBER == {" ", TAB, ",", ";", CR}

NameA == <<"a">>
NameB == <<"b">>
NameMat == <<"c", ".", "m", "a", "t">>
Names == {NameA, NameB, NameMat}
\* names under which a file exists
DiskNames == {NameA}

StrDouble == <<"d", "o", "u", "b", "l", "e">>
StrFloat == <<"f", "l", "o", "a", "t">>
Header(type, name, r, c) ==
    type \o <<" ">> \o name \o <<"(">> \o r \o <<",">> \o c \o <<")">>

\* the lines a text file is made of
LinePool ==
    { <<"#", "1">>,
      <<>>,
      <<"7">>,
      <<" ", "3">>,
      <<"1", " ", "2">>,
      <<"1", "e">>,
      <<"4", " ", "#", "c">>,
      <<"5", " ", "x">>,
      Header(StrDouble, NameA, <<"1">>, <<"2">>),
      Header(StrDouble, NameA, <<"2">>, <<"1">>),
      Header(StrFloat, NameB, <<"1">>, <<"1">>),
      Header(StrDouble, NameA, <<"2">>, <<"x">>),
      Header(StrDouble, NameA, <<"1">>, <<"0">>) }

\* the lines a file may end with when its last line has no terminator
UntermPool ==
    { <<"#", "1">>, <<"7">>, Header(StrDouble, NameA, <<"1">>, <<"2">>) }

\* the lines of a longer file of few kinds of line, among them headers
\* that give dimensions with a minus sign
EdgePool ==
    { <<"#", "1">>,
      <<>>,
      <<"7">>,
      <<"1", " ", "2">>,
      Header(StrDouble, NameA, <<"1">>, <<"1">>),
      Header(StrDouble, NameA, <<"-", "1">>, <<"-", "1">>),
      Header(StrDouble, NameA, <<"-", "1">>, <<"1">>) }

\* a first line that goes on after "#1"
LongFirstLine == <<"#", "1", "x">>

\* first bytes of a MAT-file when it is read as text
MatMagic == <<"M", "A", "T">>

\* what the next readLine call finds in the stream: nothing (end of
\* file), a line with its terminator, or a last line without one
StreamInputs ==
    IF atEnd \/ Len(file) >= (IF disk.kind = "edge" THEN MaxEdgeLines ELSE MaxLines)
       \/ (pc = "txt_scan" /\ Len(file) >= 1 + MaxScan) THEN {<<>>}
    ELSE IF disk.kind = "mat" THEN {MatMagic \o <<LF>>}
    ELSE IF disk.kind = "edge"
    THEN {<<>>, <<"7">>} \cup {ln \o <<LF>> : ln \in EdgePool}
    ELSE {<<>>} \cup {ln \o <<LF>> : ln \in LinePool}
                \cup {ln : ln \in UntermPool}
                \cup (IF file = <<>> THEN {LongFirstLine \o <<LF>>} ELSE {})

\* the line in those bytes, and whether the stream ends with them
LineOf(rest) ==
    IF rest # <<>> /\ rest[Len(rest)] = LF THEN SubSeq(rest, 1, Len(rest) - 1)
    ELSE rest
EndsStream(rest) == rest = <<>> \/ rest[Len(rest)] # LF

Msg(kind, f, t, line, echo) ==
    [kind |-> kind, file |-> f, table |-> t, line |-> line, echo |-> echo]

---------------------------------------------------------------------------
(* readTxtTable, one block of its code per operator.  S is the record of   *)
(* the call's variables, rest the bytes the stream holds for the next      *)
(* readLine, allocs the number of realloc calls that succeed.              *)

Cur ==
    [pc |-> pc, callee |-> callee, fp |-> fp, searched |-> searched,
     file |-> file, atEnd |-> atEnd, buf |-> buf, bufLen |-> bufLen,
     foundTable |-> foundTable, tableReadError |-> tableReadError,
     nRow |-> nRow, nCol |-> nCol, lineNo |-> lineNo, i |-> i, j |-> j,
     k |-> k, lineNoPartial |-> lineNoPartial, table |-> table, m |-> m,
     n |-> n, ret |-> ret, msgs |-> msgs, rsrc |-> rsrc]

\* free(buf); fclose(fp);
RelBufFp(rs) == [rs EXCEPT !.fclose = @ + 1, !.freeBuf = @ + 1]
\* free(buf); fclose(fp); freelocale(loc);
RelAll(rs) == [rs EXCEPT !.fclose = @ + 1, !.freeBuf = @ + 1, !.freeLoc = @ + 1]
\* a handle closed twice or a block freed twice
Damaged(rs) == rs.fclose > 1 \/ rs.freeBuf > 1 \/ rs.freeLoc > 1

\* the call of readLine and what it leaves behind
AfterReadLine(S, rest, allocs) ==
    LET r == ReadLine(S.buf, S.bufLen, rest, allocs)
    IN  [st |-> r.status,
         S  |-> [S EXCEPT !.buf = r.buf, !.bufLen = r.bufLen,
                     !.file = IF rest = <<>> THEN @ ELSE Append(@, LineOf(rest)),
                     !.atEnd = EndsStream(rest),
                     !.rsrc = IF r.released THEN RelBufFp(@) ELSE @,
                     !.msgs = IF r.released
                              THEN Append(@, Msg("alloc", NoName, NoName, 0, <<>>))
                              ELSE @]]

\* lines 608-620: fopen and the allocation of the line buffer
TxtOpenOp(S, exists, bufOk) ==
    IF ~exists
    THEN [S EXCEPT !.fp = NoName,
             !.msgs = Append(@, Msg("open", S.callee.fileName, NoName, 0, <<>>)),
             !.ret = Ret(NULL), !.pc = "done"]
    ELSE IF ~bufOk
    THEN [S EXCEPT !.fp = S.callee.fileName,
             !.rsrc = [@ EXCEPT !.fclose = @ + 1],
             !.msgs = Append(@, Msg("alloc", NoName, NoName, 0, <<>>)),
             !.ret = Ret(NULL), !.pc = "done"]
    ELSE [S EXCEPT !.fp = S.callee.fileName, !.buf = <<>>,
             !.bufLen = LINE_BUFFER_LENGTH, !.pc = "txt_header"]

\* the format error with one byte echoed at most
FormatErrorOneByte(S1, echo) ==
    [S1 EXCEPT !.tableReadError = 0, !.rsrc = RelBufFp(@),
        !.msgs = Append(@, Msg("format", S1.callee.fileName, NoName, 0,
                               IF echo = <<>> THEN echo ELSE <<Head(echo)>>)),
        !.ret = Ret(NULL), !.pc = "done"]

\* lines 628-662: the first line is not "#1": the error and its echo
FormatError(S1, echo) ==
    [S1 EXCEPT !.tableReadError = 0, !.rsrc = RelBufFp(@),
        !.msgs = Append(@, Msg("format", S1.callee.fileName, NoName, 0, echo)),
        !.ret = Ret(NULL), !.pc = "done"]

\* lines 622-671 after the call of readLine: a is what AfterReadLine gives
HeaderLine(a) ==
    IF a.st # 0
    THEN [a.S EXCEPT !.tableReadError = a.st, !.rsrc = RelBufFp(@),
             !.msgs = IF a.st < 0
                      THEN Append(@, Msg("eofFirst", a.S.callee.fileName,
                                         NoName, 0, <<>>))
                      ELSE @,
             !.ret = Ret(NULL), !.pc = "done"]
    ELSE IF ~StrnEq(CStr(a.S.buf, 0), <<"#", "1">>, 2)
    THEN IF Strlen(a.S.buf, 0) = 0 THEN FormatError(a.S, <<>>)
         ELSE IF Strlen(a.S.buf, 0) = 1 THEN FormatError(a.S, <<At(a.S.buf, 0)>>)
         ELSE FormatError(a.S, <<At(a.S.buf, 0), At(a.S.buf, 1)>>)
    ELSE [a.S EXCEPT !.tableReadError = 0,
             !.rsrc = [@ EXCEPT !.newLoc = @ + 1], !.pc = "txt_scan"]

\* lines 622-671: the file header and the locale
TxtHeaderOp(S, rest, allocs) == HeaderLine(AfterReadLine(S, rest, allocs))

\* lines 733-747: allocation of the table after a matching header
TxtAllocOp(S, tableOk) ==
    IF ~tableOk
    THEN [S EXCEPT !.table = NULL, !.m = Val(0), !.n = Val(0), !.rsrc = RelAll(@),
             !.msgs = Append(@, Msg("alloc", NoName, NoName, 0, <<>>)),
             !.ret = Ret(NULL), !.pc = "done"]
    ELSE [S EXCEPT !.table = Block([x \in 1..(ULong(S.nRow * S.nCol * 8) \div 8)
                                         |-> UninitCell]),
             !.i = 0, !.j = 0,
             !.pc = IF S.tableReadError = 0 /\ 0 < S.nRow
                    THEN "txt_data" ELSE "txt_finish"]

\* lines 712-727: the fourth token is the number of columns
ScanColsVal(S3, t4, l4, tableOk) ==
    IF ~l4.full THEN [S3 EXCEPT !.buf = t4.buf, !.nCol = ULong(l4.val)]
    ELSE TxtAllocOp([S3 EXCEPT !.buf = t4.buf, !.nCol = ULong(l4.val)], tableOk)

\* lines 707-711: strtok_r for the number of columns
ScanCols(S3, t4, tableOk) ==
    IF t4.tok = -1 THEN [S3 EXCEPT !.buf = t4.buf]
    ELSE ScanColsVal(S3, t4, Strtol(CStr(t4.buf, t4.tok)), tableOk)

\* lines 701-706: the third token is the number of rows
ScanRowsVal(S3, t3, l3, tableOk) ==
    IF ~l3.full THEN [S3 EXCEPT !.buf = t3.buf, !.nRow = ULong(l3.val)]
    ELSE ScanCols([S3 EXCEPT !.nRow = ULong(l3.val)],
                  Strtok(t3.buf, t3.next, DELIM_TABLE_HEADER), tableOk)

\* lines 696-700: strtok_r for the number of rows
ScanRows(S3, t3, tableOk) ==
    IF t3.tok = -1 THEN [S3 EXCEPT !.buf = t3.buf]
    ELSE ScanRowsVal(S3, t3, Strtol(CStr(t3.buf, t3.tok)), tableOk)

\* the header of any table taken for the header that is looked for
ScanNameAnyTable(S1, t2, tableOk) ==
    IF t2.tok = -1 THEN [S1 EXCEPT !.buf = t2.buf]
    ELSE ScanRows([S1 EXCEPT !.searched = S1.callee.tableName,
                             !.foundTable = 1],
                  Strtok(t2.buf, t2.next, DELIM_TABLE_HEADER), tableOk)

\* lines 689-695: the second token is compared with tableName
ScanName(S1, t2, tableOk) ==
    IF t2.tok = -1 THEN [S1 EXCEPT !.buf = t2.buf]
    ELSE IF CStr(t2.buf, t2.tok) # S1.callee.tableName
    THEN [S1 EXCEPT !.searched = S1.callee.tableName, !.buf = t2.buf]
    ELSE ScanRows([S1 EXCEPT !.searched = S1.callee.tableName,
                             !.foundTable = 1],
                  Strtok(t2.buf, t2.next, DELIM_TABLE_HEADER), tableOk)

\* lines 679-688: the first token is "double" or "float"
ScanType(S1, t1, tableOk) ==
    IF t1.tok = -1 THEN [S1 EXCEPT !.buf = t1.buf]
    ELSE IF CStr(t1.buf, t1.tok) \notin {StrDouble, StrFloat}
    THEN [S1 EXCEPT !.buf = t1.buf]
    ELSE ScanName([S1 EXCEPT !.buf = t1.buf],
                  Strtok(t1.buf, t1.next, DELIM_TABLE_HEADER), tableOk)

\* lines 674-678 after the call of readLine
ScanLine(a, tableOk) ==
    IF a.st # 0 THEN [a.S EXCEPT !.pc = "txt_finish"]
    ELSE ScanType([a.S EXCEPT !.lineNo = @ + 1],
                  Strtok(a.S.buf, 0, DELIM_TABLE_HEADER), tableOk)

\* lines 674-747: one pass of the loop over the lines of the file
TxtScanOp(S, rest, allocs, tableOk) ==
    ScanLine(AfterReadLine(S, rest, allocs), tableOk)

\* lines 758-763 and 847-852: skip leading white space from index k0
ScanWs(b, k0, len) ==
    IF k0 >= len - 1 \/ k0 >= Len(b) THEN k0
    ELSE LET s == FindNot(b, k0, {" ", TAB})
         IN  IF s > len - 1 THEN len - 1 ELSE s

\* table[idx] = v
Store(tbl, idx, v) ==
    IF idx < Len(tbl.cells) THEN [tbl EXCEPT !.cells[idx + 1] = v]
    ELSE [tbl EXCEPT !.stray = @ \cup {idx}]

\* lines 772-830: the loop over the tokens of one line
RECURSIVE TokenLoop(_, _, _, _, _, _, _, _, _)
TokenLoop(b, tok, nxt, ii, jj, err, tbl, rows, cols) ==
    IF tok # -1 /\ ii < rows /\ jj < cols /\ At(b, tok) # "#"
    THEN LET d   == Strtod(CStr(b, tok))
             e2  == IF d.full THEN err ELSE 1
             t2  == Store(tbl, ULong(ii * cols + jj), d.val)
             i2  == IF jj + 1 = cols THEN ii + 1 ELSE ii
             j2  == IF jj + 1 = cols THEN 0 ELSE jj + 1
             nx  == Strtok(b, nxt, DELIM_TABLE_NUMBER)
         IN  IF e2 = 0
             THEN TokenLoop(nx.buf, nx.tok, nx.next, i2, j2, e2, t2, rows, cols)
             ELSE [buf |-> b, tok |-> tok, i |-> i2, j |-> j2, err |-> e2,
                   table |-> t2]
    ELSE [buf |-> b, tok |-> tok, i |-> ii, j |-> jj, err |-> err, table |-> tbl]

\* the end of a data line without the check for a trailing number
DataEndNoTrailingNumber(S2, L) ==
    IF L.tok # -1 /\ At(L.buf, L.tok) # "#"
    THEN [S2 EXCEPT !.tableReadError = 1, !.pc = "txt_finish"]
    ELSE IF L.tok = -1 /\ L.err = 0 /\ L.i = S2.nRow
    THEN [S2 EXCEPT !.lineNoPartial = S2.lineNo, !.pc = "txt_look"]
    ELSE [S2 EXCEPT !.pc = IF L.err = 0 /\ L.i < S2.nRow
                           THEN "txt_data" ELSE "txt_finish"]

\* lines 831-843 and 879-880: after the tokens of the line; L is what
\* TokenLoop gives
DataEnd(S2, L) ==
    IF L.tok # -1 /\ At(L.buf, L.tok) # "#"
    THEN [S2 EXCEPT !.tableReadError =
                        IF L.i = S2.nRow /\ IsNumber(CStr(L.buf, L.tok)) = 1
                        THEN 2 ELSE 1,
                    !.pc = "txt_finish"]
    ELSE IF L.tok = -1 /\ L.err = 0 /\ L.i = S2.nRow
    THEN [S2 EXCEPT !.lineNoPartial = S2.lineNo, !.pc = "txt_look"]
    ELSE [S2 EXCEPT !.pc = IF L.err = 0 /\ L.i < S2.nRow
                           THEN "txt_data" ELSE "txt_finish"]

\* lines 772-830: the tokens of the line are stored
DataStore(S1, L) ==
    DataEnd([S1 EXCEPT !.buf = L.buf, !.i = L.i, !.j = L.j,
                       !.tableReadError = L.err, !.table = L.table], L)

\* lines 770-771: the first strtok_r of the line
DataFirst(S1, t) ==
    DataStore(S1, TokenLoop(t.buf, t.tok, t.next, S1.i, S1.j, 0, S1.table,
                            S1.nRow, S1.nCol))

\* an empty line or a comment line taken for a row of the table
DataTokensSkipTakesRow(S1, kk) ==
    IF At(S1.buf, kk) \in {NUL, "#"}
    THEN [S1 EXCEPT !.k = kk, !.tableReadError = 0, !.i = @ + 1,
             !.pc = IF S1.i + 1 < S1.nRow THEN "txt_data" ELSE "txt_finish"]
    ELSE DataFirst([S1 EXCEPT !.k = kk],
                   Strtok(S1.buf, kk, DELIM_TABLE_NUMBER))

\* lines 758-769: leading white space, empty lines and comment lines
DataTokens(S1, kk) ==
    IF At(S1.buf, kk) \in {NUL, "#"}
    THEN [S1 EXCEPT !.k = kk, !.tableReadError = 0]
    ELSE DataFirst([S1 EXCEPT !.k = kk],
                   Strtok(S1.buf, kk, DELIM_TABLE_NUMBER))

\* the end of the stream in the data taken for a line that cannot be read
DataLineEofAsParse(a) ==
    IF a.st # 0
    THEN [a.S EXCEPT !.tableReadError = 1, !.pc = "txt_finish"]
    ELSE DataTokens(a.S, ScanWs(a.S.buf, 0, a.S.bufLen))

\* lines 750-757 after the call of readLine
DataLine(a) ==
    IF a.st # 0
    THEN [a.S EXCEPT !.tableReadError = a.st, !.pc = "txt_finish"]
    ELSE DataTokens(a.S, ScanWs(a.S.buf, 0, a.S.bufLen))

\* lines 750-843 and 879-880: one pass of the loop over the rows
TxtDataOp(S, rest, allocs) ==
    DataLine(AfterReadLine([S EXCEPT !.lineNo = @ + 1, !.k = 0], rest, allocs))

\* lines 859-869: the first token of the line that follows the table
LookFirst(S1, t) ==
    [S1 EXCEPT !.buf = t.buf,
        !.msgs = IF t.tok # -1 /\ IsNumber(CStr(t.buf, t.tok)) = 1
                 THEN Append(@, Msg("warnPartial", S1.callee.fileName,
                                    S1.callee.tableName, S1.lineNoPartial, <<>>))
                 ELSE @,
        !.pc = "txt_finish"]

\* lines 847-858: the white space is skipped from the k the caller has
LookTokens(S1, kk) ==
    IF At(S1.buf, kk) \in {NUL, "#"} THEN [S1 EXCEPT !.k = kk]
    ELSE LookFirst([S1 EXCEPT !.k = kk], Strtok(S1.buf, kk, DELIM_TABLE_NUMBER))

\* lines 844-846 after the call of readLine
LookLine(a) ==
    IF a.st # 0 THEN [a.S EXCEPT !.pc = "txt_finish"]
    ELSE LookTokens([a.S EXCEPT !.lineNoPartial = @ + 1],
                    ScanWs(a.S.buf, a.S.k, a.S.bufLen))

\* lines 844-877: one pass of the loop that looks past the table
TxtLookOp(S, rest, allocs) == LookLine(AfterReadLine(S, rest, allocs))

\* lines 884-927: release of the resources, the result and its errors
TxtFinishOp(S) ==
    LET S1 == [S EXCEPT !.rsrc = RelAll(@), !.pc = "done"]
        err(kind, line) ==
            [S1 EXCEPT !.table = NULL, !.m = Val(0), !.n = Val(0), !.ret = Ret(NULL),
                !.msgs = Append(@, Msg(kind, S.callee.fileName,
                                       S.callee.tableName, line, <<>>))]
    IN  IF S.foundTable = 0
        THEN [S1 EXCEPT !.ret = Ret(S.table),
                 !.msgs = Append(@, Msg("notFound", S.callee.fileName,
                                        S.callee.tableName, 0, <<>>))]
        ELSE IF S.tableReadError = 0
        THEN [S1 EXCEPT !.m = Val(S.nRow), !.n = Val(S.nCol), !.ret = Ret(S.table)]
        ELSE IF S.tableReadError = EOF THEN err("eofData", 0)
        ELSE IF S.tableReadError = 2 THEN err("dimMismatch", S.lineNo)
        ELSE err("parse", S.lineNo)

---------------------------------------------------------------------------
(* transpose *)

\* the predecessor taken for the shape nCol x nRow
PredOfOtherShape(rows, cols, x) ==
    IF rows = 0 THEN ULong(cols * x) ELSE ULong(cols * (x % rows) + x \div rows)

\* nRow*(x % nCol) + x/nCol: predecessor of x in its cycle.  Where a
\* division by zero does not trap, its quotient is 0 and its remainder
\* the dividend.
Pred(rows, cols, x) ==
    IF cols = 0 THEN ULong(rows * x) ELSE ULong(rows * (x % cols) + x \div cols)

\* the walk that stops behind its first step
WalkDownOneStep(rows, cols, x, ii) ==
    IF x > ii THEN Pred(rows, cols, x) ELSE x

\* lines 981-983: while (x > i) x = predecessor of x
RECURSIVE WalkDown(_, _, _, _)
WalkDown(rows, cols, x, ii) ==
    IF x > ii THEN WalkDown(rows, cols, Pred(rows, cols, x), ii) ELSE x

\* lines 991-995: the rotation of one cycle, t being indexed from 0
RECURSIVE RotateLoop(_, _, _, _, _, _, _)
RotateLoop(t, s, x, ii, tmp, rows, cols) ==
    IF x # ii
    THEN RotateLoop([t EXCEPT ![s + 1] = t[x + 1]], x, Pred(rows, cols, x),
                    ii, tmp, rows, cols)
    ELSE [t EXCEPT ![s + 1] = tmp]

\* the loop body without the check that the cycle was visited before
TransposeIterRevisiting(t, rows, cols, ii) ==
    IF Pred(rows, cols, ii) <= ii THEN t
    ELSE RotateLoop(t, ii, Pred(rows, cols, ii), ii, t[ii + 1], rows, cols)

\* lines 975-997: the body of the loop for index i
TransposeIter(t, rows, cols, ii) ==
    LET x == Pred(rows, cols, ii)
    IN  IF x <= ii THEN t
        ELSE IF WalkDown(rows, cols, x, ii) < ii THEN t
        ELSE RotateLoop(t, ii, x, ii, t[ii + 1], rows, cols)

\* line 974: the bound of the loop
LoopBound(rows, cols) == ULong(rows * cols - 1)

RECURSIVE TransposeFrom(_, _, _, _)
TransposeFrom(t, rows, cols, ii) ==
    IF ii < LoopBound(rows, cols)
    THEN TransposeFrom(TransposeIter(t, rows, cols, ii), rows, cols, ii + 1)
    ELSE t

\* transpose(table, nRow, nCol)
Transpose(t, rows, cols) == TransposeFrom(t, rows, cols, 1)

---------------------------------------------------------------------------
(* The MAT-file path: readMatIO and readMatTable.  The MAT-file library is *)
(* external: what Mat_VarReadInfo, Mat_VarGetStructField and               *)
(* Mat_VarReadData return is chosen by the environment.                    *)

NoVar == [class |-> "none", rank |-> 0, dims |-> <<0, 0>>, isComplex |-> FALSE]
MatVar(class, rank, dims, cplx) ==
    [class |-> class, rank |-> rank, dims |-> dims, isComplex |-> cplx]
NumericClasses ==
    {"double", "single", "int8", "uint8", "int16", "uint16", "int32",
     "uint32", "int64", "uint64"}
\* the variables a MAT-file may hold
MatVarPool ==
    { MatVar("double", 2, <<2, 2>>, FALSE),
      MatVar("int32", 2, <<1, 2>>, FALSE),
      MatVar("struct", 2, <<1, 1>>, FALSE),
      MatVar("struct", 2, <<2, 1>>, FALSE),
      MatVar("char", 2, <<1, 2>>, FALSE),
      MatVar("double", 3, <<2, 2>>, FALSE),
      MatVar("double", 2, <<2, 1>>, TRUE) }

\* the tokens strtok_r cuts the copy of matrixName into at "."
RECURSIVE Segments(_, _)
Segments(b, p) ==
    LET t == Strtok(b, p, {"."})
    IN  IF t.tok = -1 THEN <<>>
        ELSE <<CStr(t.buf, t.tok)>> \o Segments(t.buf, t.next)

\* lines 486-496: the descent through 1x1 structs; flds are the results of
\* the successive Mat_VarGetStructField calls
RECURSIVE Descend(_, _, _)
Descend(matvar, tokens, flds) ==
    IF tokens # <<>> /\ matvar # NoVar
    THEN IF matvar.class = "struct" /\ matvar.rank = 2 /\ matvar.dims = <<1, 1>>
         THEN Descend(Head(flds), Tail(tokens), Tail(flds))
         ELSE NoVar
    ELSE matvar

NoMatIO == [mat |-> NoName, matvar |-> NoVar, matvarRoot |-> NoVar]

\* lines 439-537: readMatIO gives up with an error message
MatIOFail(fName, matrixName, kind, opened, lk, closes, frees) ==
    [matio |-> NoMatIO, opened |-> opened, looked |-> lk,
     msgs |-> <<Msg(kind, fName, matrixName, 0, <<>>)>>,
     matClose |-> closes, varFree |-> frees]

\* the checks of the variable found, the check for complex data left out
MatIOCheckNoComplex(fName, matrixName, env, looked, matvar) ==
    IF matvar = NoVar
    THEN MatIOFail(fName, matrixName, "varNotFound", fName, looked, 1, 1)
    ELSE IF matvar.rank # 2
    THEN MatIOFail(fName, matrixName, "rank", fName, looked, 1, 1)
    ELSE IF matvar.class \notin NumericClasses
    THEN MatIOFail(fName, matrixName, "class", fName, looked, 1, 1)
    ELSE [matio |-> [mat |-> fName,
                     matvar |-> [matvar EXCEPT !.class = "double"],
                     matvarRoot |-> env.root],
          opened |-> fName, looked |-> looked, msgs |-> <<>>,
          matClose |-> 0, varFree |-> 0]

\* lines 499-543: the checks of the variable found
MatIOCheck(fName, matrixName, env, looked, matvar) ==
    IF matvar = NoVar
    THEN MatIOFail(fName, matrixName, "varNotFound", fName, looked, 1, 1)
    ELSE IF matvar.rank # 2
    THEN MatIOFail(fName, matrixName, "rank", fName, looked, 1, 1)
    ELSE IF matvar.class \notin NumericClasses
    THEN MatIOFail(fName, matrixName, "class", fName, looked, 1, 1)
    ELSE IF matvar.isComplex
    THEN MatIOFail(fName, matrixName, "complex", fName, looked, 1, 1)
    ELSE [matio |-> [mat |-> fName,
                     matvar |-> [matvar EXCEPT !.class = "double"],
                     matvarRoot |-> env.root],
          opened |-> fName, looked |-> looked, msgs |-> <<>>,
          matClose |-> 0, varFree |-> 0]

\* lines 435-496: the file is opened and the variable looked up by the
\* tokens of matrixName
MatIOLookup(fName, matrixName, env, segs) ==
    IF ~env.copyOk
    THEN MatIOFail(fName, matrixName, "alloc", NoName, NoName, 0, 0)
    ELSE IF ~env.exists
    THEN MatIOFail(fName, matrixName, "open", fName, NoName, 0, 0)
    ELSE IF env.root = NoVar
    THEN MatIOFail(fName, matrixName, "varNotFound", fName,
                   IF segs = <<>> THEN matrixName ELSE Head(segs), 1, 0)
    ELSE MatIOCheck(fName, matrixName, env,
                    IF segs = <<>> THEN matrixName ELSE Head(segs),
                    Descend(env.root, IF segs = <<>> THEN <<>> ELSE Tail(segs),
                            env.flds))

\* readMatIO(fileName, matrixName, &matio): env = [copyOk, exists, root, flds]
ReadMatIO(fName, matrixName, env) ==
    MatIOLookup(fName, matrixName, env, Segments(matrixName \o <<NUL>>, 0))

\* the data of a variable as Mat_VarReadData delivers them: column-wise
MatData(dims) == [x \in 1..(dims[1] * dims[2]) |-> [mant |-> x, exp |-> 0]]

\* Mat_VarFree(matio.matvarRoot); Mat_Close(matio.mat);
MatRel(rs) == [rs EXCEPT !.matClose = @ + 1, !.varFree = @ + 1]

\* lines 380-422: readMatTable after readMatIO; mv is matio.matvar
MatTableFrom(S1, env, mv) ==
    IF mv = NoVar
    THEN [S1 EXCEPT !.table = NULL, !.ret = Ret(NULL),
             !.msgs = Append(@, Msg("readData", S1.callee.fileName,
                                    S1.callee.tableName, 0, <<0, 0>>))]
    ELSE IF ~env.tableOk
    THEN [S1 EXCEPT !.rsrc = MatRel(@), !.ret = Ret(NULL),
             !.msgs = Append(@, Msg("alloc", NoName, NoName, 0, <<>>))]
    ELSE IF env.readErr # 0
    THEN [S1 EXCEPT !.rsrc = MatRel(@), !.table = NULL, !.ret = Ret(NULL),
             !.msgs = Append(@, Msg("readData", S1.callee.fileName,
                                    S1.callee.tableName, 0,
                                    <<mv.dims[1], mv.dims[2]>>))]
    ELSE [S1 EXCEPT !.rsrc = MatRel(@), !.m = Val(mv.dims[1]),
             !.n = Val(mv.dims[2]),
             !.table = Block(Transpose(MatData(mv.dims), mv.dims[1], mv.dims[2])),
             !.ret = Ret(Block(Transpose(MatData(mv.dims), mv.dims[1],
                                         mv.dims[2])))]

\* lines 368-379: io is what readMatIO gives
MatTableOf(S, env, io) ==
    MatTableFrom([S EXCEPT !.m = Val(0), !.n = Val(0), !.fp = io.opened,
                     !.searched = io.looked, !.msgs = @ \o io.msgs,
                     !.rsrc = [@ EXCEPT !.matClose = @ + io.matClose,
                                        !.varFree = @ + io.varFree],
                     !.pc = "done"],
                 env, io.matio.matvar)

\* readMatTable: env adds tableOk (malloc) and readErr (Mat_VarReadData)
ReadMatTableOp(S, env) ==
    MatTableOf(S, env, ReadMatIO(S.callee.fileName, S.callee.tableName, env))

---------------------------------------------------------------------------
(* ModelicaIO_readRealTable *)

\* strrchr(name, '.'): the part of name from its last "."; <<>> if none
Strrchr(name) ==
    LET dots == {p \in 1..Len(name) : name[p] = "."}
    IN  IF dots = {} THEN <<>> ELSE SubSeq(name, SetMax(dots), Len(name))

\* lines 345-351
IsMatExt(name) ==
    LET ext == Strrchr(name)
    IN  IF ext # <<>>
           /\ (StrnEq(ext, <<".", "m", "a", "t">>, 4)
               \/ StrnEq(ext, <<".", "M", "A", "T">>, 4))
        THEN 1 ELSE 0

\* lines 368 and 585: the parameters of readMatTable and of readTxtTable,
\* in the order of their declaration
StaticParams(first, second) == [tableName |-> first, fileName |-> second]

\* lines 336-366; the static readers are called with (fileName, tableName)
ReadRealTableOp(S, fName, tName, verb) ==
    [S EXCEPT !.callee = StaticParams(fName, tName),
        !.msgs = IF verb = 1
                 THEN Append(@, Msg("loading", fName, tName, 0, <<>>)) ELSE @,
        !.table = NULL, !.bufLen = LINE_BUFFER_LENGTH, !.foundTable = 0,
        !.nRow = 0, !.nCol = 0, !.lineNo = 1,
        !.pc = IF IsMatExt(fName) = 1 THEN "mat" ELSE "txt_open"]

---------------------------------------------------------------------------
(* The state machine *)

NoRsrc == [fclose |-> 0, freeBuf |-> 0, newLoc |-> 0, freeLoc |-> 0,
           matClose |-> 0, varFree |-> 0]

\* the reader before a call (pc0 = "idle") or out of use (pc0 = "off")
ReaderAt(pc0) ==
    /\ pc = pc0
    /\ callee = StaticParams(NoName, NoName)
    /\ fp = NoName /\ searched = NoName
    /\ file = <<>> /\ atEnd = FALSE
    /\ buf = <<>> /\ bufLen = 0
    /\ foundTable = 0 /\ tableReadError = 0
    /\ nRow = 0 /\ nCol = 0 /\ lineNo = 0
    /\ i = 0 /\ j = 0 /\ k = 0 /\ lineNoPartial = 0
    /\ table = NULL /\ m = UNSET /\ n = UNSET
    /\ ret = NoRet /\ msgs = <<>> /\ rsrc = NoRsrc

TransposeOff ==
    /\ tt = <<>> /\ tR = 0 /\ tC = 0 /\ ti = 0 /\ tphase = "off"

\* no function of the MAT-file interface called, no answer of the library
NONE == "none"
NoLib == [copyOk |-> TRUE, exists |-> FALSE, root |-> NoVar, flds |-> <<>>,
          readErr |-> 0, partial |-> FALSE, writeErr |-> 0]

\* the stream and the capacity before any call of readLine
NoCall == [rest |-> <<>>, bufLen |-> 0]

LineOff ==
    /\ rlStream = <<>> /\ rlBuf = <<>> /\ rlBufLen = 0
    /\ rlStatus = UNSET /\ rlBefore = NoCall

NumberOff ==
    /\ numToken = <<>> /\ isNumber = UNSET

MatOff ==
    /\ entry = NONE /\ mtName = NoName /\ shape = <<0, 0>>
    /\ matrix = <<>> /\ version = NoName /\ append = 0
    /\ lib = NoLib /\ matio = NoMatIO /\ dim = UNSET
    /\ status = UNSET /\ fsOps = <<>>

Init ==
    /\ ReaderAt("idle")
    /\ fileName \in Names
    /\ tableName \in Names
    /\ verbose \in {0, 1}
    /\ disk \in [name : DiskNames, kind : {"txt", "mat"}]
    /\ TransposeOff /\ LineOff /\ NumberOff /\ MatOff

Install(nx) ==
    /\ pc' = nx.pc /\ callee' = nx.callee /\ fp' = nx.fp
    /\ searched' = nx.searched /\ file' = nx.file /\ atEnd' = nx.atEnd
    /\ buf' = nx.buf /\ bufLen' = nx.bufLen /\ foundTable' = nx.foundTable
    /\ tableReadError' = nx.tableReadError /\ nRow' = nx.nRow
    /\ nCol' = nx.nCol /\ lineNo' = nx.lineNo /\ i' = nx.i /\ j' = nx.j
    /\ k' = nx.k /\ lineNoPartial' = nx.lineNoPartial /\ table' = nx.table
    /\ m' = nx.m /\ n' = nx.n /\ ret' = nx.ret /\ msgs' = nx.msgs
    /\ rsrc' = nx.rsrc
    /\ UNCHANGED <<fileName, tableName, verbose, disk>>
    /\ UNCHANGED <<trVars, rlVars, nbVars, mtVars>>

\* lines 884-890 and 624-625: the call is aborted inside the second
\* free(buf), or inside the second fclose(fp) that follows it; what comes
\* after that point has not happened
AbortAt(cur, nx, point) ==
    [cur EXCEPT !.pc = "crashed",
        !.table = IF point = "store" THEN nx.table ELSE @,
        !.rsrc = [nx.rsrc EXCEPT !.fclose = IF point = "free" THEN @ - 1 ELSE @,
                                 !.freeLoc = cur.rsrc.freeLoc],
        !.msgs = IF cur.pc = "txt_finish" THEN cur.msgs ELSE nx.msgs,
        !.file = nx.file, !.atEnd = nx.atEnd]

\* A step of the call.  Freeing a block or closing a handle a second time
\* is undefined, and so is a store behind the block of the table (line
\* 783): the call goes on, or the process is aborted there.
Step(nx) ==
    IF Damaged(nx.rsrc) /\ ~Damaged(rsrc)
    THEN \E out \in {"go", "free", "close"} :
            Install(IF out = "go" THEN nx ELSE AbortAt(Cur, nx, out))
    ELSE IF nx.table.stray # {} /\ table.stray = {}
    THEN \E out \in {"go", "store"} :
            Install(IF out = "go" THEN nx ELSE AbortAt(Cur, nx, out))
    ELSE Install(nx)

\* line 955: ModelicaError is the environment's; when it does not return
\* to readLine the call ends there, a being what AfterReadLine gives.  At
\* its other calls readTxtTable returns right behind it.
Raised(a) ==
    /\ a.st = 1
    /\ Install([a.S EXCEPT !.pc = "raised"])

ModelicaIO_readRealTable ==
    /\ pc = "idle"
    /\ Step(ReadRealTableOp(Cur, fileName, tableName, verbose))

TxtOpen ==
    /\ pc = "txt_open"
    /\ \E bufOk \in BOOLEAN :
          Step(TxtOpenOp(Cur, callee.fileName = disk.name, bufOk))

TxtHeader ==
    /\ pc = "txt_header"
    /\ \E rest \in StreamInputs, allocs \in {0, 1} :
          \/ Step(TxtHeaderOp(Cur, rest, allocs))
          \/ Raised(AfterReadLine(Cur, rest, allocs))

TxtScan ==
    /\ pc = "txt_scan"
    /\ \E rest \in StreamInputs, allocs \in {0, 1}, tableOk \in BOOLEAN :
          \/ Step(TxtScanOp(Cur, rest, allocs, tableOk))
          \/ Raised(AfterReadLine(Cur, rest, allocs))

TxtData ==
    /\ pc = "txt_data"
    /\ \E rest \in StreamInputs, allocs \in {0, 1} :
          \/ Step(TxtDataOp(Cur, rest, allocs))
          \/ Raised(AfterReadLine([Cur EXCEPT !.lineNo = @ + 1, !.k = 0], rest, allocs))

TxtLook ==
    /\ pc = "txt_look"
    /\ \E rest \in StreamInputs, allocs \in {0, 1} :
          \/ Step(TxtLookOp(Cur, rest, allocs))
          \/ Raised(AfterReadLine(Cur, rest, allocs))

TxtFinish ==
    /\ pc = "txt_finish"
    /\ Step(TxtFinishOp(Cur))

ReadMatTable ==
    /\ pc = "mat"
    /\ \E copyOk \in BOOLEAN, root \in MatVarPool \cup {NoVar},
          fld \in MatVarPool \cup {NoVar}, tableOk \in BOOLEAN,
          readErr \in {0, 1} :
          Step(ReadMatTableOp(Cur,
                  [copyOk |-> copyOk,
                   exists |-> (callee.fileName = disk.name /\ disk.kind = "mat"),
                   root |-> root, flds |-> <<fld>>, tableOk |-> tableOk,
                   readErr |-> readErr]))

Next ==
    \/ ModelicaIO_readRealTable
    \/ TxtOpen
    \/ TxtHeader
    \/ TxtScan
    \/ TxtData
    \/ TxtLook
    \/ TxtFinish
    \/ ReadMatTable

Spec == Init /\ [][Next]_vars

\* the same calls on a text file of EdgePool lines
InitW ==
    /\ ReaderAt("idle")
    /\ fileName \in Names
    /\ tableName \in Names
    /\ verbose \in {0, 1}
    /\ disk \in [name : DiskNames, kind : {"edge"}]
    /\ TransposeOff /\ LineOff /\ NumberOff /\ MatOff

SpecW == InitW /\ [][Next]_vars

---------------------------------------------------------------------------
(* transpose applied to buffers of every shape up to MaxDim x MaxDim,     *)
(* first as transpose(t, R, C), then as transpose(t, C, R).  The cells of  *)
(* the buffer hold their own initial index, so that the buffer shows where *)
(* every value went.                                                       *)

InitT ==
    /\ ReaderAt("off")
    /\ fileName = NameA /\ tableName = NameA /\ verbose = 0
    /\ disk = [name |-> NameA, kind |-> "txt"]
    /\ tR \in 0..MaxDim
    /\ tC \in 0..MaxDim
    /\ tt = [x \in 1..(tR * tC) |-> x - 1]
    /\ ti = 1
    /\ tphase = "first"
    /\ LineOff /\ NumberOff /\ MatOff

\* the shape the running call was given
TRows == IF tphase = "first" THEN tR ELSE tC
TCols == IF tphase = "first" THEN tC ELSE tR

\* one pass of the loop of transpose.  With nCol = 0 the pass divides by
\* zero at line 975, which is undefined: the process is aborted there, or
\* the pass goes on and is aborted when it rotates cells of a buffer that
\* has none.
TransposeStep ==
    /\ tphase \in {"first", "second"}
    /\ ti < LoopBound(TRows, TCols)
    /\ IF TCols = 0
       THEN \E trap \in BOOLEAN :
               IF trap \/ (Pred(TRows, 0, ti) > ti
                              /\ WalkDown(TRows, 0, Pred(TRows, 0, ti), ti) = ti)
               THEN tphase' = "crashed" /\ UNCHANGED <<tt, ti>>
               ELSE ti' = ti + 1 /\ UNCHANGED <<tt, tphase>>
       ELSE /\ tt' = TransposeIter(tt, TRows, TCols, ti)
            /\ ti' = ti + 1
            /\ UNCHANGED tphase
    /\ UNCHANGED <<tR, tC>>
    /\ UNCHANGED <<rdVars, rlVars, nbVars, mtVars>>

\* the loop ends and transpose returns
TransposeReturn ==
    /\ tphase \in {"first", "second"}
    /\ ~(ti < LoopBound(TRows, TCols))
    /\ tphase' = IF tphase = "first" THEN "between" ELSE "done"
    /\ UNCHANGED <<tt, tR, tC, ti>>
    /\ UNCHANGED <<rdVars, rlVars, nbVars, mtVars>>

\* the second call, with the shape exchanged
TransposeAgain ==
    /\ tphase = "between"
    /\ tphase' = "second"
    /\ ti' = 1
    /\ UNCHANGED <<tt, tR, tC>>
    /\ UNCHANGED <<rdVars, rlVars, nbVars, mtVars>>

NextT == TransposeStep \/ TransposeReturn \/ TransposeAgain

SpecT == InitT /\ [][NextT]_vars

---------------------------------------------------------------------------
(* readLine applied, call after call, to every stream of up to MaxStream   *)
(* bytes with a line buffer of every capacity from 2 to MaxCap.            *)

\* the bytes of a text line, and the streams made of them and of newlines
LineBytes == {"a", "b"}
RECURSIVE Streams(_)
Streams(len) ==
    IF len = 0 THEN {<<>>}
    ELSE Streams(len - 1)
           \cup {Append(st, c) : st \in {x \in Streams(len - 1) : Len(x) = len - 1},
                                 c \in LineBytes \cup {LF}}

InitL ==
    /\ ReaderAt("off")
    /\ fileName = NameA /\ tableName = NameA /\ verbose = 0
    /\ disk = [name |-> NameA, kind |-> "txt"]
    /\ TransposeOff /\ NumberOff /\ MatOff
    /\ rlStream \in Streams(MaxStream)
    /\ rlBufLen \in 2..MaxCap
    /\ rlBuf = <<>>
    /\ rlStatus = UNSET
    /\ rlBefore = NoCall

\* the caller takes what readLine gives: r is the result of ReadLine
Returned(r) ==
    /\ rlBuf' = r.buf
    /\ rlBufLen' = r.bufLen
    /\ rlStream' = r.rest
    /\ rlStatus' = Val(r.status)
    /\ rlBefore' = [rest |-> rlStream, bufLen |-> rlBufLen]

\* status = readLine(&buf, &bufLen, fp); realloc succeeds always, or fails
\* at its first or at its second call
ReadLineCall ==
    /\ rlStatus \in {UNSET, Val(0)}
    /\ \E allocs \in {0, 1, MaxStream + 1} :
          Returned(ReadLine(rlBuf, rlBufLen, rlStream, allocs))
    /\ UNCHANGED <<rdVars, trVars, nbVars, mtVars>>

NextL == ReadLineCall

SpecL == InitL /\ [][NextL]_vars

---------------------------------------------------------------------------
(* IsNumber applied to every token of up to MaxTok bytes.  strtok_r gives  *)
(* no empty token.                                                         *)

TokenBytes == {"1", ".", "e", "+", "x"}
RECURSIVE Tokens(_)
Tokens(len) ==
    IF len = 0 THEN {<<>>}
    ELSE Tokens(len - 1)
           \cup {Append(t, c) : t \in {x \in Tokens(len - 1) : Len(x) = len - 1},
                                c \in TokenBytes}

InitN ==
    /\ ReaderAt("off")
    /\ fileName = NameA /\ tableName = NameA /\ verbose = 0
    /\ disk = [name |-> NameA, kind |-> "txt"]
    /\ TransposeOff /\ LineOff /\ MatOff
    /\ numToken \in Tokens(MaxTok) \ {<<>>}
    /\ isNumber = UNSET

\* isNumber = IsNumber(token)
IsNumberCall ==
    /\ isNumber = UNSET
    /\ isNumber' = Val(IsNumber(numToken))
    /\ UNCHANGED <<numToken, rdVars, trVars, rlVars, mtVars>>

NextN == IsNumberCall

SpecN == InitN /\ [][NextN]_vars

---------------------------------------------------------------------------
(* The MAT-file interface: ModelicaIO_readMatrixSizes,                     *)
(* ModelicaIO_readRealMatrix and ModelicaIO_writeRealMatrix, each called   *)
(* once with arguments and library answers of the environment's choice.    *)

\* the variable names "v", "s.v", "s.s.v", ...
RECURSIVE PathName(_)
PathName(d) == IF d <= 1 THEN <<"v">> ELSE <<"s", ".">> \o PathName(d - 1)
\* the names asked for; "." holds no token
MatNames == {PathName(d) : d \in 1..MaxDepth} \cup {<<".">>}
\* what Mat_VarGetStructField may give
FieldPool ==
    { NoVar,
      MatVar("struct", 2, <<1, 1>>, FALSE),
      MatVar("double", 2, <<2, 2>>, FALSE),
      MatVar("struct", 2, <<1, 2>>, FALSE) }
\* the shapes m x n of the caller's matrix, and its cells before the call
Shapes == {<<2, 2>>, <<1, 2>>, <<2, 3>>}
CallerMatrix(sh) == [x \in 1..(sh[1] * sh[2]) |-> [mant |-> 0 - x, exp |-> 0]]
\* the version tags handed to ModelicaIO_writeRealMatrix
VersionPool ==
    { <<"4">>, <<"6">>, <<"7">>, <<"7", ".", "3">>, <<"5">>, <<"7", "3">>,
      <<"7", ".", "3", "0">>, <<>> }

InitM ==
    /\ ReaderAt("idle")
    /\ fileName = NameMat /\ tableName = NoName /\ verbose \in {0, 1}
    /\ disk \in [name : {NameMat, NameA}, kind : {"mat"}]
    /\ TransposeOff /\ LineOff /\ NumberOff /\ MatOff

\* Mat_VarFree(matio.matvarRoot); Mat_Close(matio.mat); both do nothing
\* when handed NULL
CallerRel(rs, io) ==
    [rs EXCEPT !.matClose = io.matClose + (IF io.matio.mat # NoName THEN 1 ELSE 0),
               !.varFree = io.varFree
                             + (IF io.matio.matvarRoot # NoVar THEN 1 ELSE 0)]

\* what every function of the interface leaves behind it
MatCalled(fn, name, env, io, rs, ms) ==
    /\ entry' = fn /\ mtName' = name /\ lib' = env /\ matio' = io.matio
    /\ fp' = io.opened /\ searched' = io.looked
    /\ rsrc' = rs /\ msgs' = ms /\ pc' = "done"
    /\ UNCHANGED <<fileName, tableName, verbose, disk, callee, file, atEnd, buf,
                   bufLen, foundTable, tableReadError, nRow, nCol, lineNo, i, j,
                   k, lineNoPartial, table, m, n, ret>>
    /\ UNCHANGED <<trVars, rlVars, nbVars>>

\* lines 177-191: io is what readMatIO gives
SizesOf(name, env, io) ==
    /\ dim' = IF io.matio.matvar # NoVar THEN io.matio.matvar.dims ELSE <<0, 0>>
    /\ MatCalled("sizes", name, env, io, CallerRel(rsrc, io), io.msgs)
    /\ UNCHANGED <<shape, matrix, version, append, status, fsOps>>

\* the answers of the library to readMatIO
LibAnswers ==
    [copyOk : BOOLEAN, exists : {fileName = disk.name},
     root : MatVarPool \cup {NoVar}, flds : [1..(MaxDepth - 1) -> FieldPool],
     readErr : {0}, partial : {FALSE}, writeErr : {0}]

ModelicaIO_readMatrixSizes ==
    /\ pc = "idle"
    /\ \E name \in MatNames, env \in LibAnswers :
          SizesOf(name, env, ReadMatIO(fileName, name, env))

\* line 241: what Mat_VarReadData leaves in the caller's matrix: the data,
\* column-wise; after an error nothing, or the data in part
DataRead(sh, env, dims) ==
    IF env.readErr = 0 THEN MatData(dims)
    ELSE IF ~env.partial THEN CallerMatrix(sh)
    ELSE [CallerMatrix(sh) EXCEPT ![1] = MatData(dims)[1]]

\* lines 198-258: io is what readMatIO gives, mv the variable it found,
\* ms the messages so far
RealMatrixOf(name, sh, env, io, mv, ms) ==
    /\ shape' = sh
    /\ IF mv # NoVar /\ sh[1] # mv.dims[1]
       THEN /\ matrix' = CallerMatrix(sh)
            /\ MatCalled("matrix", name, env, io, CallerRel(rsrc, io),
                         Append(ms, Msg("rows", fileName, name, 0, mv.dims)))
       ELSE IF mv # NoVar /\ sh[2] # mv.dims[2]
       THEN /\ matrix' = CallerMatrix(sh)
            /\ MatCalled("matrix", name, env, io, CallerRel(rsrc, io),
                         Append(ms, Msg("cols", fileName, name, 0, mv.dims)))
       ELSE IF mv # NoVar /\ env.readErr # 0
       THEN /\ matrix' = DataRead(sh, env, mv.dims)
            /\ MatCalled("matrix", name, env, io, CallerRel(rsrc, io),
                         Append(ms, Msg("readData", fileName, name, 0, sh)))
       ELSE /\ matrix' = Transpose(IF mv # NoVar THEN DataRead(sh, env, mv.dims)
                                   ELSE CallerMatrix(sh), sh[1], sh[2])
            /\ MatCalled("matrix", name, env, io, CallerRel(rsrc, io), ms)
    /\ UNCHANGED <<dim, version, append, status, fsOps>>

ModelicaIO_readRealMatrix ==
    /\ pc = "idle"
    /\ \E name \in MatNames, sh \in Shapes, env \in LibAnswers,
          readErr \in {0, 1}, partial \in BOOLEAN :
          /\ partial => readErr = 1
          /\ RealMatrixOf(name, sh,
                 [env EXCEPT !.readErr = readErr, !.partial = partial],
                 ReadMatIO(fileName, name, env),
                 ReadMatIO(fileName, name, env).matio.matvar,
                 (IF verbose = 1
                  THEN <<Msg("loading", fileName, name, 0, <<>>)>> ELSE <<>>)
                   \o ReadMatIO(fileName, name, env).msgs)

\* the version tag judged by its first byte
MatVersionByFirstByte(ver) ==
    IF ver = <<>> \/ Head(ver) \notin {"4", "6", "7"}
    THEN [ok |-> FALSE, matv |-> NONE, matc |-> NONE]
    ELSE IF Head(ver) = "4"
    THEN [ok |-> TRUE, matv |-> "MAT_FT_MAT4", matc |-> "MAT_COMPRESSION_NONE"]
    ELSE IF ver = <<"7", ".", "3">>
    THEN [ok |-> TRUE, matv |-> "MAT_FT_MAT73", matc |-> "MAT_COMPRESSION_ZLIB"]
    ELSE IF Head(ver) = "7"
    THEN [ok |-> TRUE, matv |-> "MAT_FT_MAT5", matc |-> "MAT_COMPRESSION_ZLIB"]
    ELSE [ok |-> TRUE, matv |-> "MAT_FT_MAT5", matc |-> "MAT_COMPRESSION_NONE"]

\* lines 273-292: the version tag, compared by strcmp
MatVersion(ver) ==
    IF ver # <<"4">> /\ ver # <<"6">> /\ ver # <<"7">> /\ ver # <<"7", ".", "3">>
    THEN [ok |-> FALSE, matv |-> NONE, matc |-> NONE]
    ELSE IF ver = <<"4">>
    THEN [ok |-> TRUE, matv |-> "MAT_FT_MAT4", matc |-> "MAT_COMPRESSION_NONE"]
    ELSE IF ver = <<"7", ".", "3">>
    THEN [ok |-> TRUE, matv |-> "MAT_FT_MAT73", matc |-> "MAT_COMPRESSION_ZLIB"]
    ELSE IF ver = <<"7">>
    THEN [ok |-> TRUE, matv |-> "MAT_FT_MAT5", matc |-> "MAT_COMPRESSION_ZLIB"]
    ELSE [ok |-> TRUE, matv |-> "MAT_FT_MAT5", matc |-> "MAT_COMPRESSION_NONE"]

\* a call of the library that creates, opens or changes the file
FileOp(op, ft, comp, dims, data) ==
    [op |-> op, file |-> fileName, ft |-> ft, compression |-> comp,
     dims |-> dims, data |-> data]

\* lines 294-306: Mat_CreateVer or Mat_Open
OpenOp(app, v) ==
    IF app = 0 THEN FileOp("Mat_CreateVer", v.matv, NONE, <<>>, <<>>)
    ELSE FileOp("Mat_Open", v.matv, NONE, <<>>, <<>>)

\* what readMatIO would have left had it never been called
NoIO(opened) == [matio |-> NoMatIO, opened |-> opened, looked |-> NoName]

\* lines 265-334: v is what the version tag stands for
WriteOf(name, sh, ver, app, env, v) ==
    /\ version' = ver /\ append' = app /\ shape' = sh
    /\ matrix' = CallerMatrix(sh)
    /\ IF ~v.ok
       THEN /\ status' = Val(0) /\ fsOps' = <<>>
            /\ MatCalled("write", name, env, NoIO(NoName), rsrc,
                         <<Msg("version", fileName, NoName, 0, ver)>>)
       ELSE IF ~env.exists
       THEN /\ status' = Val(0) /\ fsOps' = <<OpenOp(app, v)>>
            /\ MatCalled("write", name, env, NoIO(NoName), rsrc,
                         <<Msg(IF app = 0 THEN "create" ELSE "open", fileName,
                               NoName, 0, <<>>)>>)
       ELSE IF ~env.copyOk
       THEN /\ status' = Val(0) /\ fsOps' = <<OpenOp(app, v)>>
            /\ MatCalled("write", name, env, NoIO(fileName),
                         [rsrc EXCEPT !.matClose = 1],
                         <<Msg("alloc", NoName, NoName, 0, <<>>)>>)
       ELSE /\ status' = Val(IF env.writeErr # 0 THEN 0 ELSE 1)
            /\ fsOps' = <<OpenOp(app, v)>>
                          \o (IF app # 0
                              THEN <<FileOp("Mat_VarDelete", NONE, NONE, <<>>, <<>>)>>
                              ELSE <<>>)
                          \o <<FileOp("Mat_VarWrite", NONE, v.matc, sh,
                                      Transpose(CallerMatrix(sh), sh[2], sh[1]))>>
            /\ MatCalled("write", name, env, NoIO(fileName),
                         [rsrc EXCEPT !.matClose = 1],
                         IF env.writeErr # 0
                         THEN <<Msg("write", fileName, name, 0, <<>>)>> ELSE <<>>)
    /\ UNCHANGED dim

ModelicaIO_writeRealMatrix ==
    /\ pc = "idle"
    /\ \E sh \in Shapes, ver \in VersionPool, app \in {0, 1},
          handle \in BOOLEAN, aT \in BOOLEAN, wst \in {0, 1} :
          WriteOf(PathName(1), sh, ver, app,
                  [NoLib EXCEPT !.exists = handle, !.copyOk = aT,
                                !.writeErr = wst],
                  MatVersion(ver))

NextM ==
    \/ ModelicaIO_readMatrixSizes
    \/ ModelicaIO_readRealMatrix
    \/ ModelicaIO_writeRealMatrix

SpecM == InitM /\ [][NextM]_vars

---------------------------------------------------------------------------
(* What the properties speak of: the text of the file as it was read, cut  *)
(* into tokens without regard to the line buffer.                          *)

\* the call has returned, and it went to readTxtTable
TxtReturned == pc = "done" /\ IsMatExt(fileName) = 0

\* no malloc or realloc call has failed
NoAllocFailure == \A x \in 1..Len(msgs) : msgs[x].kind # "alloc"

ErrorKinds ==
    {"open", "alloc", "eofFirst", "format", "notFound", "eofData",
     "dimMismatch", "parse", "varNotFound", "rank", "class", "complex",
     "readData", "rows", "cols", "version", "create", "write"}
\* the kinds of the error messages issued so far
Errors == {msgs[x].kind : x \in {y \in 1..Len(msgs) : msgs[y].kind \in ErrorKinds}}
Warned == \E x \in 1..Len(msgs) : msgs[x].kind = "warnPartial"
LastMsg == msgs[Len(msgs)]

\* the tokens of a line: its longest runs of bytes that are no delimiters
RECURSIVE RefTokens(_, _)
RefTokens(line, delims) ==
    IF line = <<>> THEN <<>>
    ELSE IF Head(line) \in delims THEN RefTokens(Tail(line), delims)
    ELSE LET stops == {q \in 1..Len(line) : line[q] \in delims}
             e     == IF stops = {} THEN Len(line) + 1 ELSE SetMin(stops)
         IN  <<SubSeq(line, 1, e - 1)>>
                 \o RefTokens(SubSeq(line, e, Len(line)), delims)

\* the tokens of a data line, and those of them in front of the comment
RefRaw(line) == RefTokens(line, DELIM_TABLE_NUMBER)
RefData(line) ==
    LET raw    == RefRaw(line)
        hashes == {q \in 1..Len(raw) : raw[q][1] = "#"}
    IN  IF hashes = {} THEN raw
        ELSE SubSeq(raw, 1, SetMin(hashes) - 1)

\* a token that is a decimal integer, a token that is a number
RefIsInt(tok) == tok # <<>> /\ \A q \in 1..Len(tok) : tok[q] \in Digits
RefIsNum(tok) == Strtod(tok).full
RefAllNum(toks) == \A q \in 1..Len(toks) : RefIsNum(toks[q])

\* a line that is a header of the table called name
RefIsHeader(line, name) ==
    LET t == RefTokens(line, DELIM_TABLE_HEADER)
    IN  /\ Len(t) >= 4
        /\ t[1] \in {StrDouble, StrFloat}
        /\ t[2] = name
        /\ RefIsInt(t[3]) /\ RefIsInt(t[4])

\* the first line begins with "#1"
RefFirstLineOk ==
    file # <<>> /\ Len(file[1]) >= 2 /\ SubSeq(file[1], 1, 2) = <<"#", "1">>

\* the lines after the first that are headers of the requested table, the
\* first of them, and the shape it declares
RefHeaders ==
    {h \in 2..Len(file) : RefIsHeader(file[h], callee.tableName)}
RefH == SetMin(RefHeaders)
RefR == LET rows == RefTokens(file[RefH], DELIM_TABLE_HEADER)[3]
        IN  DecVal(rows, 1, Len(rows))
RefC == LET cols == RefTokens(file[RefH], DELIM_TABLE_HEADER)[4]
        IN  DecVal(cols, 1, Len(cols))

\* the line on which the last of need numeric tokens stands when the
\* lines from x on hold them; 0 when a token that is no number or the end
\* of the text comes first
RECURSIVE RefFillLine(_, _)
RefFillLine(x, need) ==
    IF x > Len(file) THEN 0
    ELSE LET data == RefData(file[x])
         IN  IF Len(data) >= need
             THEN IF RefAllNum(SubSeq(data, 1, need)) THEN x ELSE 0
             ELSE IF RefAllNum(data) THEN RefFillLine(x + 1, need - Len(data))
             ELSE 0

\* the line of the first token that is no number among the first need
\* tokens of the lines from x on; 0 when there is none
RECURSIVE RefBadLine(_, _)
RefBadLine(x, need) ==
    IF x > Len(file) \/ need <= 0 THEN 0
    ELSE LET data == RefData(file[x])
         IN  IF ~RefAllNum(SubSeq(data, 1, IF Len(data) < need
                                           THEN Len(data) ELSE need))
             THEN x
             ELSE RefBadLine(x + 1, need - Len(data))

\* the data tokens of the lines x..y, in the order of the text
RECURSIVE RefStream(_, _)
RefStream(x, y) ==
    IF x > y THEN <<>> ELSE RefData(file[x]) \o RefStream(x + 1, y)

\* the number of data tokens in front of line x of the block
RefBefore(x) == Len(RefStream(RefH + 1, x - 1))

\* the values of the first cnt tokens of the block
RefValues(cnt) ==
    [q \in 1..cnt |-> Strtod(RefStream(RefH + 1, Len(file))[q]).val]

\* the call has returned the table of the declared shape with the values
\* of the block
RefSuccess ==
    /\ Errors = {}
    /\ ret = Ret(Block(RefValues(RefR * RefC)))
    /\ m = Val(RefR) /\ n = Val(RefC)

\* the call has failed with one error of that kind, naming file and table
\* and the line, and has returned no buffer
RefFailure(kind, line) ==
    /\ Errors = {kind}
    /\ LastMsg = Msg(kind, callee.fileName, callee.tableName, line, <<>>)
    /\ ret = Ret(NULL)

---------------------------------------------------------------------------
(* ModelicaIO_readRealTable hands its arguments to the static readers *)

\* C1: for every call ModelicaIO_readRealTable(fileName, tableName, ...),
\* the file that is opened (or that fopen/Mat_Open is asked for) is the one
\* named by the fileName argument and the name searched for is the
\* tableName argument (its first field when it names a struct field), on
\* the text path and on the MAT path.
C1_NamesNotExchanged ==
    /\ fp # NoName => fp = fileName
    /\ searched # NoName
          => searched \in {tableName, Head(RefTokens(tableName, {"."}))}
    /\ \A x \in 1..Len(msgs) : msgs[x].kind = "open" => msgs[x].file = fileName

---------------------------------------------------------------------------
(* readTxtTable *)

\* the file begins with "#1" and holds a header of the requested table
RefTableThere == RefFirstLineOk /\ RefHeaders # {}

\* the text read holds the declared number of numeric tokens behind the
\* header, the last of them at the end of its line, and no data token
\* behind them
RefExactBlock ==
    /\ RefTableThere
    /\ IF RefR * RefC = 0 THEN RefStream(RefH + 1, Len(file)) = <<>>
       ELSE /\ RefFillLine(RefH + 1, RefR * RefC) # 0
            /\ Len(RefStream(RefH + 1, Len(file))) = RefR * RefC

\* C2: for a file whose first line begins with "#1" and that holds a
\* matching header name(R,C) followed by exactly R*C numeric tokens,
\* readTxtTable succeeds with *m = R, *n = C and the k-th token of the data
\* stream at index k of the buffer, however the tokens are spread over the
\* lines.
C2_HappyPath ==
    (TxtReturned /\ NoAllocFailure /\ RefExactBlock) => RefSuccess

\* C5: whenever readTxtTable fails it returns no buffer and both *m and
\* *n are 0; whenever it succeeds the buffer returned has (*m)*(*n) cells,
\* all of them written.
C5_Outcome ==
    TxtReturned =>
        IF Errors # {}
        THEN ret = Ret(NULL) /\ m = Val(0) /\ n = Val(0)
        ELSE /\ ret.table.alloc
             /\ m # UNSET /\ n # UNSET
             /\ Len(ret.table.cells) = m[1] * n[1]
             /\ \A x \in 1..Len(ret.table.cells) : ret.table.cells[x] # UninitCell

\* C6: if no line after the first is a matching header (type tag, the
\* requested name and two integers), readTxtTable fails with the "table not
\* found" error naming file and table and returns no buffer, also when a
\* line has the tag and the name but no proper dimensions.
C6_NotFound ==
    (TxtReturned /\ NoAllocFailure /\ RefFirstLineOk /\ RefHeaders = {})
        => RefFailure("notFound", 0)

\* the first min(length, 2) bytes of the first line
RefEcho == SubSeq(file[1], 1, IF Len(file[1]) < 2 THEN Len(file[1]) ELSE 2)

\* C7: if the first line does not begin with "#1", readTxtTable fails with
\* the format error that echoes min(length of the line, 2) bytes of it,
\* reads no further line and returns no buffer; a first line that begins
\* with "#1" is accepted, whatever follows on it, and the search for the
\* table goes on.
C7_FirstLine ==
    (TxtReturned /\ NoAllocFailure /\ file # <<>>) =>
        IF RefFirstLineOk
        THEN /\ "format" \notin Errors
             /\ Len(file) = 1 => Errors = {"notFound"}
        ELSE /\ Errors = {"format"}
             /\ LastMsg = Msg("format", callee.fileName, NoName, 0, RefEcho)
             /\ Len(file) = 1
             /\ ret = Ret(NULL)

\* a first line of three bytes was refused, and two bytes of it echoed
C7_Witness ==
    /\ TxtReturned /\ NoAllocFailure
    /\ file = << <<"1", " ", "2">> >>
    /\ LastMsg.kind = "format" /\ LastMsg.echo = <<"1", " ">>

\* the line of the first token that is no number while cells are unfilled
RefBad == RefBadLine(RefH + 1, RefR * RefC)

\* C8: if a data token that does not start with "#" and is no number is
\* met while cells of the block are unfilled (the last cell included),
\* readTxtTable fails with the generic parse error for the line of that
\* token, counted from 1, never with another error, and returns no buffer.
C8_ParseError ==
    (TxtReturned /\ NoAllocFailure /\ RefTableThere /\ RefBad # 0)
        => RefFailure("parse", RefBad)

\* the line on which the last cell is filled, the number of tokens it
\* gives to the table, and the token behind them
RefLast == RefFillLine(RefH + 1, RefR * RefC)
RefNeed == RefR * RefC - RefBefore(RefLast)
RefFilled == RefTableThere /\ RefR * RefC >= 1 /\ RefLast # 0
RefFurther == RefRaw(file[RefLast])[RefNeed + 1]

\* C9: once all rows*cols values are filled, a further token on the same
\* line that does not start with "#" makes readTxtTable fail, with the
\* dimension-mismatch error if IsNumber holds of the token and with the
\* generic parse error otherwise; a further token that starts with "#" is
\* no error and the table is returned.
C9_TrailingToken ==
    (TxtReturned /\ NoAllocFailure /\ RefFilled
        /\ Len(RefRaw(file[RefLast])) > RefNeed)
        => IF RefFurther[1] = "#" THEN RefSuccess
           ELSE IF IsNumber(RefFurther) = 1
           THEN RefFailure("dimMismatch", RefLast)
           ELSE RefFailure("parse", RefLast)

\* the line "1 2" gave the last cell its value and had a number left
C9_Witness ==
    /\ TxtReturned /\ NoAllocFailure /\ RefFilled
    /\ file[RefLast] = <<"1", " ", "2">>
    /\ RefNeed = 1
    /\ Errors = {"dimMismatch"}

\* C10: if the R*C values are filled exactly at the end of a line and the
\* next line starts with a numeric token, readTxtTable succeeds all the
\* same: it issues the warning, returns *m = R, *n = C and the buffer with
\* the first R*C values.
C10_MoreDataWarning ==
    (TxtReturned /\ NoAllocFailure /\ RefFilled
        /\ Len(RefRaw(file[RefLast])) = RefNeed
        /\ Len(file) > RefLast
        /\ RefRaw(file[RefLast + 1]) # <<>>
        /\ IsNumber(RefRaw(file[RefLast + 1])[1]) = 1)
        => RefSuccess /\ Warned

\* C11: if the stream ends behind a matching header before R*C values are
\* filled, and no token met was malformed, readTxtTable fails with the
\* end-of-file error (not the parse error, not the dimension-mismatch
\* error) and returns no buffer, *m and *n being 0.
C11_EndOfFileInData ==
    (TxtReturned /\ NoAllocFailure /\ RefTableThere /\ RefR * RefC >= 1
        /\ RefLast = 0 /\ RefBad = 0)
        => RefFailure("eofData", 0) /\ m = Val(0) /\ n = Val(0)

\* the stream ended behind the first of the two values of a(2,1)
C11_Witness ==
    /\ TxtReturned /\ NoAllocFailure
    /\ file = << <<"#", "1">>, Header(StrDouble, NameA, <<"2">>, <<"1">>), <<"7">> >>
    /\ callee.tableName = NameA
    /\ Errors = {"eofData"}

\* the file was opened, and the line buffer was allocated
RefOpened == fp # NoName
RefBufAllocated == RefOpened /\ ~(file = <<>> /\ Errors = {"alloc"})

\* C12: on every exit path of readTxtTable behind fopen, a failure of
\* realloc inside readLine included, the file handle is closed exactly
\* once and the line buffer is freed exactly once.
C12_ReleasedOnce ==
    (TxtReturned /\ RefOpened)
        => /\ rsrc.fclose = 1
           /\ rsrc.freeBuf = IF RefBufAllocated THEN 1 ELSE 0

\* C13: the locale object created behind the check of the first line is
\* freed exactly once on every path that follows, a failure of malloc for
\* the table and of realloc inside readLine included; it is never left
\* allocated when the call ends.
C13_LocaleReleased ==
    (pc \in {"done", "crashed", "raised"} /\ IsMatExt(fileName) = 0)
        => rsrc.freeLoc = rsrc.newLoc

\* C20: once the R*C values are filled, readTxtTable reads one further
\* line at most before it returns, whatever the lines behind the table
\* hold.
C20_OneLookahead ==
    (TxtReturned /\ NoAllocFailure /\ RefFilled) => Len(file) <= RefLast + 1

\* the call of readTxtTable before its first line is read, every malloc
\* and realloc succeeding
RefStart ==
    [Cur EXCEPT !.pc = "txt_header", !.file = <<>>, !.atEnd = FALSE,
        !.buf = <<>>, !.bufLen = LINE_BUFFER_LENGTH, !.foundTable = 0,
        !.tableReadError = 0, !.nRow = 0, !.nCol = 0, !.lineNo = 1, !.i = 0,
        !.j = 0, !.k = 0, !.lineNoPartial = 0, !.table = NULL, !.m = UNSET,
        !.n = UNSET, !.ret = NoRet, !.msgs = <<>>, !.rsrc = NoRsrc]

\* one pass of the loop the call is in, the stream holding rest
RefPass(S, rest) ==
    CASE S.pc = "txt_header" -> TxtHeaderOp(S, rest, 1)
      [] S.pc = "txt_scan" -> TxtScanOp(S, rest, 1, TRUE)
      [] S.pc = "txt_data" -> TxtDataOp(S, rest, 1)
      [] S.pc = "txt_look" -> TxtLookOp(S, rest, 1)

\* the call as it returns when the file holds the lines given and no more
RECURSIVE RefRun(_, _)
RefRun(S, lines) ==
    IF S.pc = "txt_finish" THEN TxtFinishOp(S)
    ELSE IF S.pc = "done" THEN S
    ELSE IF lines = <<>> THEN RefRun(RefPass(S, <<>>), <<>>)
    ELSE RefRun(RefPass(S, Append(Head(lines), LF)), Tail(lines))

\* a line that is empty, or whose first byte behind leading blanks and
\* tabs is "#"
RECURSIVE RefSkip(_)
RefSkip(line) ==
    IF line = <<>> THEN TRUE
    ELSE IF Head(line) \in {" ", TAB} THEN Tail(line) # <<>> /\ RefSkip(Tail(line))
    ELSE Head(line) = "#"

\* the last line the loop over the rows has read
RefDataEnd == IF RefFilled THEN RefLast ELSE Len(file)

\* the empty and comment lines between the header and the last data line
RefSkipped ==
    {p \in (RefH + 1)..(RefDataEnd - 1) :
        /\ RefSkip(file[p])
        /\ \E q \in (p + 1)..RefDataEnd : ~RefSkip(file[q])}

\* the file without its line p
RefWithout(p) == SubSeq(file, 1, p - 1) \o SubSeq(file, p + 1, Len(file))

\* the error kinds among messages ms
RefKinds(ms) == {ms[x].kind : x \in {y \in 1..Len(ms) : ms[y].kind \in ErrorKinds}}

\* the call S has returned what this call has
RefSameOutcome(S) ==
    /\ RefKinds(S.msgs) = Errors
    /\ S.ret = ret /\ S.m = m /\ S.n = n

\* C21: an empty line or a comment line between the matching header and
\* the last data line takes no cell: the file without that line gives the
\* same success or error kind, the same *m and *n and the same values.
C21_SkippedLines ==
    (TxtReturned /\ NoAllocFailure /\ RefTableThere)
        => \A p \in RefSkipped : RefSameOutcome(RefRun(RefStart, RefWithout(p)))

\* the empty line between the header of a(1,2) and its data took no cell
C21_Witness ==
    /\ TxtReturned /\ NoAllocFailure
    /\ file = << <<"#", "1">>, Header(StrDouble, NameA, <<"1">>, <<"2">>), <<>>,
                 <<"1", " ", "2">> >>
    /\ callee.tableName = NameA
    /\ RefSkipped = {3}
    /\ Errors = {} /\ Len(ret.table.cells) = 2

\* a line of blanks and tabs only
RefBlank(line) == \A q \in 1..Len(line) : line[q] \in {" ", TAB}

\* of the lines from q on, the first that is not blank, empty or a comment
\* begins with a token that IsNumber takes for a number
RECURSIVE RefNumberFollows(_)
RefNumberFollows(q) ==
    IF q > Len(file) THEN FALSE
    ELSE IF RefBlank(file[q]) \/ RefSkip(file[q]) THEN RefNumberFollows(q + 1)
    ELSE RefRaw(file[q]) # <<>> /\ IsNumber(RefRaw(file[q])[1]) = 1

\* C25: the bytes of the line buffer that readTxtTable inspects lie in the
\* line just read, its terminator included: the place k at which a line is
\* classified is not behind the end of that line; and behind a block that is
\* filled at the end of a line the warning is issued if and only if the
\* lines that follow say so, whatever white space the last data line began
\* with.
C25_ScanPosition ==
    (pc \in {"txt_data", "txt_look", "txt_finish", "done"}
        /\ IsMatExt(fileName) = 0 /\ NoAllocFailure /\ file # <<>>)
        => /\ k <= Len(file[Len(file)])
           /\ (pc = "done" /\ RefFilled /\ Len(RefRaw(file[RefLast])) = RefNeed)
                 => (Warned <=> RefNumberFollows(RefLast + 1))

\* C26: readTxtTable parses the block of the first header that matches in
\* full and stops.  The lines in front of that header (headers of other
\* tables, their data) do not affect the result: without any one of them
\* the call gives the same success or error kind, *m, *n and values.  What
\* stands behind the last line of the block (a later header of the same
\* name included) is not parsed: the file cut off there gives the same.
C26_FirstMatchOnly ==
    (TxtReturned /\ NoAllocFailure /\ RefTableThere)
        => /\ \A p \in 2..(RefH - 1) :
                 RefSameOutcome(RefRun(RefStart, RefWithout(p)))
           /\ RefSameOutcome(RefRun(RefStart, SubSeq(file, 1, RefDataEnd)))

\* the header of b was passed over and the block of a was returned
C26_Witness ==
    /\ TxtReturned /\ NoAllocFailure
    /\ file = << <<"#", "1">>, Header(StrFloat, NameB, <<"1">>, <<"1">>),
                 Header(StrDouble, NameA, <<"1">>, <<"2">>), <<"1", " ", "2">> >>
    /\ callee.tableName = NameA
    /\ RefH = 3 /\ RefDataEnd = 4
    /\ Errors = {} /\ m = Val(1) /\ n = Val(2)

\* C23: every store of readTxtTable into the table goes to an index
\* i*nCol + j below the number of cells that were allocated, whatever
\* dimensions the header carries, dimensions with a minus sign and
\* dimensions whose product wraps in the arithmetic of size_t included.
C23_StoresInBounds == table.stray = {}

---------------------------------------------------------------------------
(* transpose *)

\* C3: for all R, C >= 1, after transpose(t, R, C) the value at index
\* r*C + c is the value that was at index c*R + r before the call.
C3_TransposeIsNaive ==
    tphase = "between"
        => \A r \in 0..(tR - 1), c \in 0..(tC - 1) :
              tt[r * tC + c + 1] = c * tR + r

\* a buffer of 2 x 3 is transposed by the first call
C3_Witness ==
    tphase = "between" /\ tR = 2 /\ tC = 3 /\ tt = <<0, 2, 4, 1, 3, 5>>

\* C4: transpose(t, R, C) followed by transpose(t, C, R) leaves t as it
\* was; when R = 1 or C = 1 the first call already leaves t unchanged.
C4_TransposeTwice ==
    /\ tphase = "done" => tt = [x \in 1..(tR * tC) |-> x - 1]
    /\ (tphase = "between" /\ (tR = 1 \/ tC = 1))
          => tt = [x \in 1..(tR * tC) |-> x - 1]

\* a buffer of 3 x 4 is back after the second call
C4_Witness ==
    tphase = "done" /\ tR = 3 /\ tC = 4 /\ tt = [x \in 1..12 |-> x - 1]


\* the index permutation of the running call on 1..R*C-2: x goes to
\* x*R mod (R*C - 1), and the cycle of index x
RefPerm(x) == (x * TRows) % (TRows * TCols - 1)
RECURSIVE RefCycleFrom(_, _)
RefCycleFrom(x, seen) ==
    IF x \in seen THEN seen ELSE RefCycleFrom(RefPerm(x), seen \cup {x})
RefCycle(x) == RefCycleFrom(x, {})

\* cell x of the buffer (counted from 1) holds what it held when the
\* running call began
RefUnwritten(x) ==
    tt[x] = IF tphase = "first" THEN x - 1
            ELSE ((x - 1) % tC) * tR + (x - 1) \div tC

\* the cells a pass of the loop has changed
RefWritten == {x \in 1..Len(tt) : tt'[x] # tt[x]}

\* C22: in transpose(t, R, C) with R, C >= 1 the pass for index i rotates
\* a cycle exactly when i is the smallest index of a cycle of two indices
\* or more; it then writes the cells of that cycle and no other, and each
\* cell it writes was not written before in the call, so that fixed
\* points, index 0 and index R*C-1 are never written.
C22_CycleRotatedOnce ==
    [][(tphase \in {"first", "second"} /\ tR >= 1 /\ tC >= 1 /\ ti' = ti + 1)
          => /\ RefWritten # {}
                   <=> (ti = SetMin(RefCycle(ti)) /\ Cardinality(RefCycle(ti)) >= 2)
             /\ RefWritten # {} => RefWritten = {x + 1 : x \in RefCycle(ti)}
             /\ \A x \in RefWritten : RefUnwritten(x)]_vars

\* in a buffer of 3 x 4 the pass for index 2 has rotated the second cycle
C22_Witness ==
    /\ tphase = "first" /\ tR = 3 /\ tC = 4 /\ ti = 3
    /\ tt = <<0, 3, 6, 9, 1, 4, 7, 10, 2, 5, 8, 11>>

\* C24: transpose(t, R, C) ends after a number of passes in proportion to
\* R*C (its loop index stays below R*C); when R = 0 or C = 0 it makes no
\* pass at all, divides by no zero and touches no cell.
C24_TransposeEnds ==
    /\ tphase # "crashed"
    /\ tphase \in {"first", "second"}
          => ti <= (IF TRows * TCols >= 2 THEN TRows * TCols - 1 ELSE 1)

---------------------------------------------------------------------------
(* readLine *)

\* the stream held a terminated line when readLine was called: its length
RefHasLine == \E q \in 1..Len(rlBefore.rest) : rlBefore.rest[q] = LF
RefL == SetMin({q \in 1..Len(rlBefore.rest) : rlBefore.rest[q] = LF}) - 1
\* the capacity is the capacity before the call times a power of two
RefGrown == \E e \in 0..(MaxStream + 1) : rlBufLen = rlBefore.bufLen * (2 ^ e)

\* C17: for every capacity >= 2 and every line of length L, shorter or
\* longer than the capacity, readLine returns 0 with the L bytes in front
\* of the terminator in the buffer, in order and followed by NUL; the
\* capacity has grown by a power of two and never shrunk; the next call
\* starts at the byte behind the terminator.
C17_WholeLine ==
    /\ rlStatus # UNSET => RefGrown
    /\ (rlStatus \notin {UNSET, Val(1)} /\ RefHasLine)
          => /\ rlStatus = Val(0)
             /\ CStr(rlBuf, 0) = SubSeq(rlBefore.rest, 1, RefL)
             /\ rlStream = SubSeq(rlBefore.rest, RefL + 2, Len(rlBefore.rest))

\* a line of four bytes was read into a buffer of capacity 2
C17_Witness ==
    /\ rlStatus = Val(0)
    /\ rlBefore = [rest |-> <<"a", "b", "b", "a", LF>>, bufLen |-> 2]
    /\ CStr(rlBuf, 0) = <<"a", "b", "b", "a">>
    /\ rlBufLen = 8
    /\ rlStream = <<>>

\* C18: readLine returns EOF exactly when the stream is at its end when
\* readLine is called; a last line with content and no terminator, also one
\* that fills the buffer exactly, is returned whole with status 0, and it
\* is the call after it that returns EOF.
C18_EofOnlyAtEnd ==
    rlStatus # UNSET =>
        /\ rlStatus = Val(EOF) <=> rlBefore.rest = <<>>
        /\ (rlStatus # Val(1) /\ rlBefore.rest # <<>> /\ ~RefHasLine)
              => /\ rlStatus = Val(0)
                 /\ CStr(rlBuf, 0) = rlBefore.rest
                 /\ rlStream = <<>>

\* a last line of three bytes without terminator came back whole from a
\* buffer of capacity 4
C18_Witness ==
    /\ rlStatus = Val(0)
    /\ rlBefore = [rest |-> <<"a", "b", "a">>, bufLen |-> 4]
    /\ CStr(rlBuf, 0) = <<"a", "b", "a">>
    /\ rlStream = <<>>

---------------------------------------------------------------------------
(* IsNumber *)

\* the token behind its leading sign
RefBody(tok) == IF tok[1] \in {"-", "+"} THEN Tail(tok) ELSE tok
\* the places of the bytes of set S in a sequence
RefPlaces(b, S) == {q \in 1..Len(b) : b[q] \in S}
\* optional sign, then digits, at most one decimal point and that in front
\* of the exponent marker, at most one exponent marker, at most one
\* exponent sign and that right behind the marker
RefNumberForm(tok) ==
    /\ \A q \in 1..Len(RefBody(tok)) :
          RefBody(tok)[q] \in Digits \cup {".", "e", "E", "-", "+"}
    /\ Cardinality(RefPlaces(RefBody(tok), {"."})) <= 1
    /\ Cardinality(RefPlaces(RefBody(tok), {"e", "E"})) <= 1
    /\ Cardinality(RefPlaces(RefBody(tok), {"-", "+"})) <= 1
    /\ \A d \in RefPlaces(RefBody(tok), {"."}),
          x \in RefPlaces(RefBody(tok), {"e", "E"}) : d < x
    /\ \A g \in RefPlaces(RefBody(tok), {"-", "+"}) :
          g - 1 \in RefPlaces(RefBody(tok), {"e", "E"})

\* C19: IsNumber returns 1 exactly for the tokens made of an optional
\* sign, digits, at most one decimal point (in front of the exponent
\* marker), at most one exponent marker and at most one exponent sign
\* right behind the marker; for every other token, "1e5+3" among them, it
\* returns 0.
C19_NumberForm ==
    isNumber # UNSET
        => /\ isNumber \in {Val(0), Val(1)}
           /\ isNumber = Val(1) <=> RefNumberForm(numToken)

---------------------------------------------------------------------------
(* The MAT-file interface *)

\* a function that reads has returned
MatRead == pc = "done" /\ entry \in {"sizes", "matrix"}

\* the segments of the name, and the variable the library gave for the
\* q-th of them
RefDepth ==
    IF RefTokens(mtName, {"."}) = <<>> THEN 1 ELSE Len(RefTokens(mtName, {"."}))
RefVarAt(q) == IF q = 1 THEN lib.root ELSE lib.flds[q - 1]
\* every segment in front of the last is a 1x1 struct of rank 2, the last
\* a numeric variable of rank 2 that is not complex
RefResolved ==
    /\ lib.copyOk /\ lib.exists
    /\ \A q \in 1..(RefDepth - 1) :
          /\ RefVarAt(q).class = "struct" /\ RefVarAt(q).rank = 2
          /\ RefVarAt(q).dims = <<1, 1>>
    /\ RefVarAt(RefDepth).rank = 2
    /\ RefVarAt(RefDepth).class \in NumericClasses
    /\ ~RefVarAt(RefDepth).isComplex

\* C15: readMatIO fills the MatIO structure if and only if every segment
\* of the name in front of the last resolves to a 1x1 struct of rank 2 and
\* the last to a numeric, non-complex variable of rank 2; otherwise its
\* fields stay NULL, and the file handle and the root variable, where they
\* were obtained, are released exactly once, the caller's Mat_VarFree and
\* Mat_Close acting on NULL.
C15_MatIOFilled ==
    MatRead =>
        /\ matio # NoMatIO <=> RefResolved
        /\ matio # NoMatIO
              => matio = [mat |-> fileName,
                          matvar |-> [RefVarAt(RefDepth) EXCEPT !.class = "double"],
                          matvarRoot |-> lib.root]
        /\ rsrc.matClose = IF lib.copyOk /\ lib.exists THEN 1 ELSE 0
        /\ rsrc.varFree = IF lib.copyOk /\ lib.exists /\ lib.root # NoVar
                          THEN 1 ELSE 0

\* the name "s.s.v" led through two 1x1 structs to a matrix of 2 x 2
C15_Witness ==
    /\ MatRead /\ entry = "sizes"
    /\ mtName = <<"s", ".", "s", ".", "v">>
    /\ matio.matvar = MatVar("double", 2, <<2, 2>>, FALSE)
    /\ matio.matvarRoot = MatVar("struct", 2, <<1, 1>>, FALSE)
    /\ dim = <<2, 2>>
    /\ rsrc.matClose = 1 /\ rsrc.varFree = 1

\* C16: ModelicaIO_readRealMatrix changes the caller's matrix only when
\* the variable was resolved, m and n equal its dimensions and the data
\* were read; on every failure (variable not resolved, rows or columns not
\* matching, read error) an error is reported and the matrix is as it was,
\* not transposed either.
C16_MatrixUntouched ==
    (pc = "done" /\ entry = "matrix"
        /\ ~(RefResolved /\ shape = RefVarAt(RefDepth).dims /\ lib.readErr = 0))
        => matrix = CallerMatrix(shape) /\ Errors # {}

\* the four version tags and what they stand for
RefFormat(ver) ==
    CASE ver = <<"4">> -> <<"MAT_FT_MAT4", "MAT_COMPRESSION_NONE">>
      [] ver = <<"6">> -> <<"MAT_FT_MAT5", "MAT_COMPRESSION_NONE">>
      [] ver = <<"7">> -> <<"MAT_FT_MAT5", "MAT_COMPRESSION_ZLIB">>
      [] ver = <<"7", ".", "3">> -> <<"MAT_FT_MAT73", "MAT_COMPRESSION_ZLIB">>
      [] OTHER -> <<>>

\* C14: ModelicaIO_writeRealMatrix takes the version tags "4", "6", "7"
\* and "7.3" for (MAT4, no compression), (MAT5, no compression), (MAT5,
\* zlib) and (MAT7.3, zlib); for every other tag it reports an error and
\* returns 0, and no file is created, opened or written.
C14_VersionTags ==
    (pc = "done" /\ entry = "write") =>
        IF RefFormat(version) # <<>>
        THEN /\ "version" \notin Errors
             /\ fsOps # <<>>
             /\ fsOps[1].op = (IF append = 0 THEN "Mat_CreateVer" ELSE "Mat_Open")
             /\ fsOps[1].ft = RefFormat(version)[1]
             /\ \A x \in 1..Len(fsOps) :
                   fsOps[x].op = "Mat_VarWrite"
                       => fsOps[x].compression = RefFormat(version)[2]
        ELSE /\ msgs = <<Msg("version", fileName, NoName, 0, version)>>
             /\ status = Val(0)
             /\ fsOps = <<>>
             /\ fp = NoName /\ rsrc = NoRsrc

\* a matrix of 2 x 3 was written with the tag "7.3"
C14_Witness ==
    /\ pc = "done" /\ entry = "write"
    /\ version = <<"7", ".", "3">> /\ shape = <<2, 3>> /\ append = 0
    /\ status = Val(1)
    /\ Len(fsOps) = 2
    /\ fsOps[1].ft = "MAT_FT_MAT73"
    /\ fsOps[2].compression = "MAT_COMPRESSION_ZLIB"

=============================================================================
